---- MODULE Spec2Model ----
(***************************************************************************)
(* A model of the academic recommendation engine:                          *)
(*   - UniversityRecommender  (degree_recommender_for_university.py)       *)
(*   - CourseRecommender      (course_recommender_for_university.py,       *)
(*                             core2.py)                                   *)
(*   - CourseRecommenderV4    (student_recommender.py)                     *)
(*                                                                         *)
(* Strings are sequences of code points, so that case folding, stripping,  *)
(* the title allow-list, sorting and tokenisation are computed as the code *)
(* computes them.  Numbers are exact rationals <<n, d>> with d > 0.        *)
(*                                                                         *)
(* The TF-IDF cosine similarity is irrational in general.  The model keeps *)
(* what is exact about it (an empty vocabulary raises, no shared term      *)
(* gives exactly 0, proportional term-count vectors give 1 up to one unit  *)
(* of floating-point rounding) and draws every other value from SimMid.    *)
(***************************************************************************)
EXTENDS Integers, Sequences, FiniteSets, TLC

VARIABLES
    engine,         \* the class of the recommender the request constructed
    db,             \* the entity graph: university_id -> University row
    weights_arg,    \* the weights argument(s) the recommender was built with
    weights,        \* self.weights
    cache_enabled,  \* self.cache_enabled
    profile_cache,  \* self._profile_cache: university_id -> profile
    v4,             \* CourseRecommenderV4: self.tfidf_weight, self.overlap_weight
    call,           \* the last facade call: operation, arguments, outcome
    ncalls,         \* facade calls made on this instance
    run,            \* the call in progress: its stage and the profiles it built
    nedits          \* changes other requests have committed to the entity graph

vars == <<engine, db, weights_arg, weights, cache_enabled, profile_cache, v4, call,
          ncalls, run, nedits>>

----------------------------------------------------------------------------
(* Bounds of the model.                                                    *)

MaxTopN == 2

----------------------------------------------------------------------------
(* Exact rational arithmetic.                                              *)

\* LET x == e IN F(x)
With(e, F(_)) == F(e)

Abs(n) == IF n < 0 THEN -n ELSE n

RECURSIVE Gcd(_, _)
Gcd(a, b) == IF b = 0 THEN a ELSE Gcd(b, a % b)

Rat(n, d) ==
    IF n = 0 THEN <<0, 1>>
    ELSE With(Gcd(Abs(n), Abs(d)),
              LAMBDA g : IF d < 0 THEN <<(-n) \div g, (-d) \div g>>
                         ELSE <<n \div g, d \div g>>)

RZero == <<0, 1>>
ROne == <<1, 1>>
RAdd(a, b) == Rat(a[1] * b[2] + b[1] * a[2], a[2] * b[2])
RSub(a, b) == Rat(a[1] * b[2] - b[1] * a[2], a[2] * b[2])
RMul(a, b) == Rat(a[1] * b[1], a[2] * b[2])
RDiv(a, b) == Rat(a[1] * b[2], a[2] * b[1])
RLess(a, b) == a[1] * b[2] < b[1] * a[2]
RLeq(a, b) == a[1] * b[2] <= b[1] * a[2]
RInUnit(a) == RLeq(RZero, a) /\ RLeq(a, ROne)

\* floor of a rational
RFloor(a) == IF a[1] >= 0 THEN a[1] \div a[2] ELSE -((-a[1] + a[2] - 1) \div a[2])

\* round(x, k) for k decimals, as an integer number of 10^-k units; scale = 10^k.
\* Ties go to the even unit, Python's rule for an exactly representable tie.
RoundTo(a, scale) ==
    With(RMul(a, <<scale, 1>>), LAMBDA x :
    With(RFloor(x), LAMBDA f :
        IF 2 * (x[1] - f * x[2]) < x[2] THEN f
        ELSE IF 2 * (x[1] - f * x[2]) > x[2] THEN f + 1
        ELSE IF f % 2 = 0 THEN f ELSE f + 1))

RECURSIVE SumOver(_, _)
SumOver(S, f) ==
    IF S = {} THEN RZero
    ELSE LET x == CHOOSE y \in S : TRUE IN RAdd(f[x], SumOver(S \ {x}, f))

RECURSIVE SeqSum(_)
SeqSum(s) == IF s = <<>> THEN 0 ELSE Head(s) + SeqSum(Tail(s))

SetMax(S) == CHOOSE x \in S : \A y \in S : y <= x

Range(s) == {s[i] : i \in DOMAIN s}

\* The same sequence / function, with every element evaluated once.
Tup(f) == <<>> \o f
Fn(f) == f @@ <<>>

\* A set of integers in ascending order.
RECURSIVE Asc(_)
Asc(S) == IF S = {} THEN <<>>
          ELSE LET m == CHOOSE x \in S : \A y \in S : x <= y
               IN  <<m>> \o Asc(S \ {m})

----------------------------------------------------------------------------
(* Strings: sequences of code points.                                      *)

IsSpace(c) == c \in {9, 10, 13, 32}
IsUpper(c) == c \in 65..90
IsAlnum(c) == c \in 48..57 \/ c \in 65..90 \/ c \in 97..122
IsWord(c) == IsAlnum(c) \/ c = 95

LowerChar(c) == IF IsUpper(c) THEN c + 32 ELSE c
Lower(s) == [i \in 1..Len(s) |-> LowerChar(s[i])]

RECURSIVE LStrip(_)
LStrip(s) == IF s # <<>> /\ IsSpace(Head(s)) THEN LStrip(Tail(s)) ELSE s

RECURSIVE RStrip(_)
RStrip(s) ==
    IF s # <<>> /\ IsSpace(s[Len(s)]) THEN RStrip(SubSeq(s, 1, Len(s) - 1)) ELSE s

Strip(s) == RStrip(LStrip(s))

RECURSIVE StrLess(_, _)
StrLess(a, b) ==
    IF b = <<>> THEN FALSE
    ELSE IF a = <<>> THEN TRUE
    ELSE IF Head(a) # Head(b) THEN Head(a) < Head(b)
    ELSE StrLess(Tail(a), Tail(b))

\* sorted(S) for a set of strings
RECURSIVE Sorted(_)
Sorted(S) ==
    IF S = {} THEN <<>>
    ELSE With(CHOOSE x \in S : \A y \in S \ {x} : StrLess(x, y),
              LAMBDA m : <<m>> \o Sorted(S \ {m}))

\* " ".join(list)
RECURSIVE Join(_)
Join(l) ==
    IF l = <<>> THEN <<>>
    ELSE IF Len(l) = 1 THEN l[1]
    ELSE l[1] \o <<32>> \o Join(Tail(l))

----------------------------------------------------------------------------
(* json.loads, for the texts the entity graph can hold: an array of string *)
(* literals and integers, a string literal, an integer.  Any other text    *)
(* raises (ok = FALSE).  A value is kept as its truthiness and its str().  *)

RECURSIVE SplitComma(_, _, _, _)
SplitComma(s, inStr, cur, acc) ==
    IF s = <<>> THEN Append(acc, cur)
    ELSE IF Head(s) = 34 THEN SplitComma(Tail(s), ~inStr, Append(cur, 34), acc)
    ELSE IF Head(s) = 44 /\ ~inStr THEN SplitComma(Tail(s), FALSE, <<>>, Append(acc, cur))
    ELSE SplitComma(Tail(s), inStr, Append(cur, Head(s)), acc)

JsonFail == [ok |-> FALSE, isList |-> FALSE, items |-> <<>>]

\* One JSON value: a string literal without escapes, or an integer.
JsonScalar(t) ==
    With(Strip(t), LAMBDA x :
    With(SubSeq(x, 2, Len(x) - 1), LAMBDA inner :
        IF Len(x) >= 2 /\ x[1] = 34 /\ x[Len(x)] = 34
           /\ \A i \in 1..Len(inner) : inner[i] \notin {34, 92} /\ inner[i] >= 32
        THEN [ok |-> TRUE, truthy |-> inner # <<>>, str |-> inner]
        ELSE IF Len(x) >= 1 /\ (\A i \in 1..Len(x) : x[i] \in 48..57)
                /\ (Len(x) = 1 \/ x[1] # 48)
        THEN [ok |-> TRUE, truthy |-> x # <<48>>, str |-> x]
        ELSE [ok |-> FALSE, truthy |-> FALSE, str |-> <<>>]))

\* The values of a JSON array whose text between the brackets is `inner`.
JsonArray(inner) ==
    With(SplitComma(inner, FALSE, <<>>, <<>>), LAMBDA parts :
    With(Tup([i \in 1..Len(parts) |-> JsonScalar(parts[i])]), LAMBDA vals :
        IF Strip(inner) = <<>>
        THEN [ok |-> TRUE, isList |-> TRUE, items |-> <<>>]
        ELSE IF \A i \in 1..Len(vals) : vals[i].ok
        THEN [ok |-> TRUE, isList |-> TRUE,
              items |-> Tup([i \in 1..Len(vals) |->
                               [truthy |-> vals[i].truthy, str |-> vals[i].str]])]
        ELSE JsonFail))

JsonLoads(s) ==
    With(Strip(s), LAMBDA x :
        IF Len(x) >= 2 /\ x[1] = 91 /\ x[Len(x)] = 93
        THEN JsonArray(SubSeq(x, 2, Len(x) - 1))
        ELSE With(JsonScalar(x), LAMBDA v :
                 IF v.ok
                 THEN [ok |-> TRUE, isList |-> FALSE,
                       items |-> <<[truthy |-> v.truthy, str |-> v.str]>>]
                 ELSE JsonFail))

\* A str value of the entity graph as a Python value.
StrValue(s) == [truthy |-> s # <<>>, str |-> s]

\* The degree_titles column (JSON): None, a list of strings, or a string.
NoTitles == [kind |-> "none", text |-> <<>>, items |-> <<>>]
TitleList(l) == [kind |-> "list", text |-> <<>>, items |-> l]
TitleText(s) == [kind |-> "str", text |-> s, items |-> <<>>]

FieldTruthy(f) ==
    CASE f.kind = "none" -> FALSE
      [] f.kind = "list" -> f.items # <<>>
      [] f.kind = "str" -> f.text # <<>>

----------------------------------------------------------------------------
(* TfidfVectorizer() and cosine_similarity.                                *)

\* The analyzer: lower-case, then the tokens of (?u)\b\w\w+\b, that is the
\* maximal runs of word characters that are at least two characters long.
RECURSIVE Scan(_, _, _)
Scan(s, cur, acc) ==
    LET flushed == IF Len(cur) >= 2 THEN Append(acc, cur) ELSE acc
    IN  IF s = <<>> THEN flushed
        ELSE IF IsWord(Head(s)) THEN Scan(Tail(s), Append(cur, LowerChar(Head(s))), acc)
        ELSE Scan(Tail(s), <<>>, flushed)

Tokens(doc) == Scan(doc, <<>>, <<>>)

\* term -> number of occurrences in the document
TermCounts(doc) ==
    LET toks == Tokens(doc)
    IN  [t \in Range(toks) |-> Cardinality({i \in 1..Len(toks) : toks[i] = t})]

\* Two tf-idf rows point in the same direction iff the term counts are
\* proportional (the idf factor of a term is the same in both rows).
Proportional(a, b) ==
    /\ DOMAIN a = DOMAIN b
    /\ DOMAIN a # {}
    /\ \A t, u \in DOMAIN a : a[t] * b[u] = a[u] * b[t]

\* A similarity: q, the value, and e, the sign of a floating-point rounding
\* error far below the 10^-4 resolution of anything the engine rounds.  Rows
\* of one term normalise to exactly 1.0; the dot product of two equal rows
\* of more terms is 1.0 or one unit in the last place off it.
Sim(q, e) == [q |-> q, e |-> e]
SimZero == Sim(RZero, 0)

\* The values drawn for a similarity strictly between 0 and 1: one below the
\* 0.01 cut-off the elective engine tests, one above it.
SimMid == {<<1, 200>>, <<1, 2>>}

SimValues(a, b) ==
    IF DOMAIN a \cap DOMAIN b = {} THEN {SimZero}
    ELSE IF Proportional(a, b) /\ Cardinality(DOMAIN a) = 1 THEN {Sim(ROne, 0)}
    ELSE IF Proportional(a, b) THEN {Sim(ROne, -1), Sim(ROne, 0), Sim(ROne, 1)}
    ELSE {Sim(q, 0) : q \in SimMid}

\* fit_transform raises ValueError("empty vocabulary") when no document of
\* the corpus holds a token.
EmptyVocabulary(docs) == \A i \in 1..Len(docs) : Tokens(docs[i]) = <<>>

\* The possible results of cosine_similarity(target, candidates): one value
\* per candidate; equal candidate rows get equal values.
CosineSims(target, cands) ==
    LET tc == TermCounts(target)
        cc == Tup([i \in 1..Len(cands) |-> TermCounts(cands[i])])
        opts == Tup([i \in 1..Len(cands) |-> SimValues(tc, cc[i])])
    IN  {s \in [1..Len(cands) -> UNION Range(opts)] :
            /\ \A i \in 1..Len(cands) : s[i] \in opts[i]
            /\ \A i, j \in 1..Len(cands) : cc[i] = cc[j] => s[i] = s[j]}

\* In [0, 1], the rounding error counted.
SimInUnit(s) ==
    /\ RInUnit(s.q)
    /\ ~(s.q = ROne /\ s.e > 0)
    /\ ~(s.q = RZero /\ s.e < 0)

\* 1.0 - s
OneMinus(s) == Sim(RSub(ROne, s.q), -s.e)

\* max(0.0, min(1.0, s))
Clamp01(s) ==
    IF RLess(s.q, RZero) \/ (s.q = RZero /\ s.e < 0) THEN Sim(RZero, 0)
    ELSE IF RLess(ROne, s.q) \/ (s.q = ROne /\ s.e > 0) THEN Sim(ROne, 0)
    ELSE s

----------------------------------------------------------------------------
(* UniversityRecommender.                                                   *)

WeightKeys == {"frequency", "novelty", "compatibility", "skill_enrichment"}

\* default (degree_recommender_for_university.py:54-59)
DefaultWeights ==
    [k \in WeightKeys |->
        CASE k = "frequency" -> <<30, 100>>
          [] k = "novelty" -> <<25, 100>>
          [] k = "compatibility" -> <<20, 100>>
          [] k = "skill_enrichment" -> <<15, 100>>]

\* A weights argument: None, or a dict (a function from its keys).
NoWeights == [none |-> TRUE, map |-> <<>>]
WeightsDict(m) == [none |-> FALSE, map |-> m]

\* __init__: merge the argument over the defaults and normalise.
InitWeights(arg) ==
    IF arg.none \/ DOMAIN arg.map = {} THEN DefaultWeights
    ELSE LET merged == [k \in WeightKeys \cup DOMAIN arg.map |->
                          IF k \in DOMAIN arg.map THEN arg.map[k] ELSE DefaultWeights[k]]
             total == SumOver(DOMAIN merged, merged)
         IN  IF total = RZero THEN DefaultWeights
             ELSE [k \in DOMAIN merged |-> RDiv(merged[k], total)]

\* The title allow-list of build_university_profile: [^a-zA-Z0-9 \-&] is removed.
AllowedU(c) == IsAlnum(c) \/ c \in {32, 45, 38}

\* The same with the strip before the filter.
CleanTitleStripFirst(t) == SelectSeq(Strip(t), AllowedU)

\* re.sub(r"[^a-zA-Z0-9 \-&]", "", str(title)).strip() (line 141)
CleanTitleU(t) == Strip(SelectSeq(t, AllowedU))

\* The candidate titles of a degree_titles field (lines 130-136; the same in
\* _parse_titles): a list as it is, a string through json.loads, a string
\* that does not parse as itself, any other value wrapped in a list.
TitleValues(field) ==
    CASE field.kind = "list" ->
            Tup([i \in 1..Len(field.items) |-> StrValue(field.items[i])])
      [] field.kind = "str" ->
            With(JsonLoads(field.text), LAMBDA loaded :
                IF loaded.ok THEN loaded.items ELSE <<StrValue(field.text)>>)
      [] OTHER -> <<>>

\* The titles the loop of lines 138-143 adds to profile["degrees"] for one
\* program, in the order it adds them: the cleaned form of every truthy
\* candidate, unless it is empty.
AddedTitlesU(field) ==
    IF ~FieldTruthy(field) THEN <<>>
    ELSE With(SelectSeq(TitleValues(field), LAMBDA v : v.truthy), LAMBDA kept :
            SelectSeq(Tup([i \in 1..Len(kept) |-> CleanTitleU(kept[i].str)]),
                      LAMBDA t : t # <<>>))

\* The titles of one program in profile["degrees"], a set.
ProgramTitlesU(field) == Range(AddedTitlesU(field))

NotFound == [found |-> FALSE, skills |-> <<>>, skills_raw_names |-> <<>>,
             courses |-> <<>>, degrees |-> <<>>]

\* The profile of a University row (lines 101-149).
ProfileOf(univ) ==
    With(Sorted(UNION {{Strip(univ.courses[i].skills[k]) : k \in 1..Len(univ.courses[i].skills)} :
                         i \in 1..Len(univ.courses)} \ {<<>>}),
         LAMBDA skills :
            [found |-> TRUE,
             skills |-> skills,
             skills_raw_names |-> skills,
             courses |-> Sorted({Strip(c.lesson_name) :
                                   c \in {x \in Range(univ.courses) : x.lesson_name # <<>>}}
                                \ {<<>>}),
             degrees |-> Sorted(UNION {ProgramTitlesU(univ.programs[i].degree_titles) :
                                         i \in 1..Len(univ.programs)})])

\* build_university_profile(university_id), read through the cache `cache`.
BuildProfile(graph, cache, enabled, id) ==
    IF enabled /\ id \in DOMAIN cache THEN cache[id]
    ELSE IF id \notin DOMAIN graph THEN NotFound
    ELSE ProfileOf(graph[id])

\* A cache that stores the profiles without their degrees.
CacheAfterWithoutDegrees(graph, cache, enabled, ids) ==
    IF ~enabled THEN cache
    ELSE Fn([i \in DOMAIN cache \cup (ids \cap DOMAIN graph) |->
               IF i \in DOMAIN cache THEN cache[i]
               ELSE [ProfileOf(graph[i]) EXCEPT !.degrees = <<>>]])

\* A cache that also memoizes the lookups that found no university.
CacheAfterWithMisses(graph, cache, enabled, ids) ==
    IF ~enabled THEN cache
    ELSE Fn([i \in DOMAIN cache \cup ids |->
               IF i \in DOMAIN cache THEN cache[i]
               ELSE IF i \in DOMAIN graph THEN ProfileOf(graph[i]) ELSE NotFound])

\* The cache after build_university_profile has been called for every id of `ids`.
CacheAfter(graph, cache, enabled, ids) ==
    IF ~enabled THEN cache
    ELSE Fn([i \in DOMAIN cache \cup (ids \cap DOMAIN graph) |->
               IF i \in DOMAIN cache THEN cache[i] ELSE ProfileOf(graph[i])])

\* What build_university_profile returns during one call, per id.
Profiles(graph, cache, enabled) ==
    Fn([i \in DOMAIN graph \cup DOMAIN cache |-> BuildProfile(graph, cache, enabled, i)])

ProfileAt(P, id) == IF id \in DOMAIN P THEN P[id] ELSE NotFound

\* The text of a profile in find_similar_universities (lines 187-195).
ProfileText(p) ==
    Strip(Join(SelectSeq(<<Join(p.skills), Join(p.courses), Join(p.degrees)>>,
                         LAMBDA part : part # <<>>)))

\* Is similarity a greater than similarity b (as floats)?
SimGreater(a, b) == RLess(b.q, a.q) \/ (a.q = b.q /\ a.e > b.e)

\* sorted(items, key=..., reverse=True) for items carrying their sort key (a
\* similarity) as .key: stable, so items with equal keys keep their order.
RECURSIVE SortDesc(_)
SortDesc(items) ==
    IF items = <<>> THEN <<>>
    ELSE LET i == CHOOSE j \in 1..Len(items) :
                     /\ \A k \in 1..Len(items) : ~SimGreater(items[k].key, items[j].key)
                     /\ \A k \in 1..(j - 1) : SimGreater(items[j].key, items[k].key)
         IN  <<items[i]>> \o
             SortDesc(Tup([k \in 1..(Len(items) - 1) |->
                             IF k < i THEN items[k] ELSE items[k + 1]]))

\* The whole list, whatever n.
TakeAll(l, n) == l

\* list[:n] for n >= 0
Take(l, n) == SubSeq(l, 1, IF n < Len(l) THEN n ELSE Len(l))

\* The other universities of the graph, in primary-key order, whose profile
\* has a non-empty text (lines 172-198).
ValidUnivs(graph, P, target) ==
    SelectSeq(Asc(DOMAIN graph \ {target}), LAMBDA u : ProfileText(P[u]) # <<>>)

\* The corpus of find_similar_universities: the candidates' texts.
SimilarDocs(P, valid) == Tup([i \in 1..Len(valid) |-> ProfileText(P[valid[i]])])

\* The similarity vectors find_similar_universities can compute (lines 215-221).
FindSimilarSims(graph, P, target) ==
    LET tp == ProfileAt(P, target)
        docs == SimilarDocs(P, ValidUnivs(graph, P, target))
    IN  IF ~tp.found \/ docs = <<>> \/ EmptyVocabulary(Append(docs, ProfileText(tp)))
        THEN {<<>>}
        ELSE CosineSims(ProfileText(tp), docs)

\* find_similar_universities(target, top_n) for one drawn similarity vector
\* `sims` (unused when the vectoriser raises): the returned list.
FindSimilar(graph, P, target, top_n, sims) ==
    LET tp == ProfileAt(P, target)
        valid == ValidUnivs(graph, P, target)
        docs == SimilarDocs(P, valid)
        pairs == Tup([i \in 1..Len(valid) |-> [u |-> valid[i], key |-> sims[i]]])
        ranked == Take(SortDesc(pairs), top_n)
    IN  IF ~tp.found \/ docs = <<>> THEN <<>>
        ELSE IF EmptyVocabulary(Append(docs, ProfileText(tp))) THEN <<>>
        ELSE Tup([i \in 1..Len(ranked) |->
                [university_id |-> ranked[i].u,
                 similarity_score |-> RoundTo(ranked[i].key.q, 10000)]])

\* The whole-word search \b(w)\b of re.search.
WordBoundary(s, k) ==
    LET before == k > 1 /\ k - 1 <= Len(s) /\ IsWord(s[k - 1])
        after == k >= 1 /\ k <= Len(s) /\ IsWord(s[k])
    IN  before # after

\* re.search(w, s) without the word boundaries
HasSubstring(s, w) == \E i \in 1..(Len(s) - Len(w) + 1) : SubSeq(s, i, i + Len(w) - 1) = w

\* re.search(r"\b" + w + r"\b", s)
HasWord(s, w) ==
    \E i \in 1..(Len(s) - Len(w) + 1) :
        /\ SubSeq(s, i, i + Len(w) - 1) = w
        /\ WordBoundary(s, i)
        /\ WordBoundary(s, i + Len(w))

\* master | msc | ma | m\.sc | msc
MasterWords == {<<109, 97, 115, 116, 101, 114>>, <<109, 115, 99>>, <<109, 97>>,
                <<109, 46, 115, 99>>}
\* phd | doctorate | doctoral
DoctorWords == {<<112, 104, 100>>, <<100, 111, 99, 116, 111, 114, 97, 116, 101>>,
                <<100, 111, 99, 116, 111, 114, 97, 108>>}

\* The degree type classifier (lines 410-417).
DegreeType(deg) ==
    IF \E w \in MasterWords : HasWord(Lower(deg), w) THEN "MSc/MA"
    ELSE IF \E w \in DoctorWords : HasWord(Lower(deg), w) THEN "PhD"
    ELSE "BSc/BA"

LowerSet(l) == {Lower(l[i]) : i \in 1..Len(l)}

\* compat of one peer (lines 367-372): overlap / (union_count + 1)
PairCompatU(a, b) == Rat(Cardinality(a \cap b), Cardinality(a \cup b) + 1)

\* The peers of a suggest_degrees_with_skills call: find_similar_universities(target, 10).
SimilarLimit == 10

\* The orders in which the candidate degrees can enter degree_texts: peer by
\* peer, and within a peer in the iteration order of a set of strings, which
\* the interpreter's string hashing decides.
DegreeOrders(newDegs) ==
    LET D == UNION Range(newDegs)
        first(d) == CHOOSE i \in 1..Len(newDegs) :
                        d \in newDegs[i] /\ \A j \in 1..(i - 1) : d \notin newDegs[j]
    IN  {o \in [1..Cardinality(D) -> D] :
            /\ \A a, b \in DOMAIN o : a # b => o[a] # o[b]
            /\ \A a, b \in DOMAIN o : a < b => first(o[a]) <= first(o[b])}

\* What suggest_degrees_with_skills reads before it scores (lines 332-381),
\* for the peers `similar` and the candidate order `order`.
DegreeFeatures(P, target, similar, order) ==
    LET tp == ProfileAt(P, target)
        peers == Tup([i \in 1..Len(similar) |-> ProfileAt(P, similar[i].university_id)])
        newDegs == Tup([i \in 1..Len(peers) |-> Range(peers[i].degrees) \ Range(tp.degrees)])
        newSkills == Tup([i \in 1..Len(peers) |-> Range(peers[i].skills) \ Range(tp.skills)])
        text == Tup([i \in 1..Len(peers) |-> Join(peers[i].skills \o peers[i].courses)])
        compat == Tup([i \in 1..Len(peers) |->
                     PairCompatU(LowerSet(peers[i].skills_raw_names),
                                 LowerSet(tp.skills_raw_names))])
        offering(d) == {i \in 1..Len(peers) : d \in newDegs[i]}
        RECURSIVE Texts(_, _)
        Texts(d, i) == IF i > Len(peers) THEN <<>>
                       ELSE (IF d \in newDegs[i] THEN <<32>> \o text[i] ELSE <<>>)
                            \o Texts(d, i + 1)
    IN  [target |-> tp,
         degrees |-> order,
         degree_freq |-> Fn([d \in Range(order) |-> Cardinality(offering(d))]),
         degree_texts |-> Fn([d \in Range(order) |-> Texts(d, 1)]),
         degree_compat |-> Fn([d \in Range(order) |->
                              SumOver(offering(d), [i \in offering(d) |-> compat[i]])]),
         degree_skill_bonus |-> Fn([d \in Range(order) |->
                              SeqSum(Tup([i \in 1..Len(peers) |->
                                  IF d \in newDegs[i] THEN Cardinality(newSkills[i]) ELSE 0]))]),
         pairs |-> {[a |-> LowerSet(peers[i].skills_raw_names),
                     b |-> LowerSet(tp.skills_raw_names),
                     value |-> compat[i]] : i \in UNION {offering(d) : d \in Range(order)}},
         target_text |-> Join(tp.skills \o tp.courses \o tp.degrees)]

\* The candidate orders when the degrees the target already offers are not
\* taken out of the peers' degrees (line 358 without the set difference).
SuggestOrdersUnfiltered(P, target, similar) ==
    DegreeOrders(Tup([i \in 1..Len(similar) |->
        Range(ProfileAt(P, similar[i].university_id).degrees)]))

\* The candidate orders of a call with the peers `similar`.
SuggestOrders(P, target, similar) ==
    LET tp == ProfileAt(P, target)
    IN  DegreeOrders(Tup([i \in 1..Len(similar) |->
            Range(ProfileAt(P, similar[i].university_id).degrees) \ Range(tp.degrees)]))

\* The similarity vectors the degree documents can get (lines 383-389); the
\* except branch gives all zeros.
SuggestSims(f) ==
    LET docs == Tup([i \in 1..Len(f.degrees) |-> f.degree_texts[f.degrees[i]]])
    IN  IF EmptyVocabulary(Append(docs, f.target_text))
        THEN {Tup([i \in 1..Len(docs) |-> SimZero])}
        ELSE CosineSims(f.target_text, docs)

\* One scored degree (lines 397-434).
ScoreDegree(f, w, deg, sim, max_freq, max_skill_bonus) ==
    LET freq_score == Rat(f.degree_freq[deg], max_freq)
        novelty_score == Clamp01(OneMinus(sim))
        compat_score == RDiv(f.degree_compat[deg], <<f.degree_freq[deg], 1>>)
        skill_enrichment_score == Rat(f.degree_skill_bonus[deg], max_skill_bonus)
        total_score == RAdd(RAdd(RMul(w["frequency"], freq_score),
                                 RMul(w["novelty"], novelty_score.q)),
                            RAdd(RMul(w["compatibility"], compat_score),
                                 RMul(w["skill_enrichment"], skill_enrichment_score)))
    IN  [degree |-> deg,
         score |-> RoundTo(total_score, 1000),
         key |-> Sim(<<RoundTo(total_score, 1000), 1>>, 0),
         degree_type |-> DegreeType(deg),
         metrics |-> [frequency |-> RoundTo(freq_score, 100),
                      compatibility |-> RoundTo(compat_score, 100),
                      skill_enrichment |-> f.degree_skill_bonus[deg],
                      novelty |-> RoundTo(novelty_score.q, 100)],
         freq_score |-> freq_score,
         novelty_score |-> novelty_score,
         compat_score |-> compat_score,
         skill_enrichment_score |-> skill_enrichment_score]

\* The outcome of a facade call: what it returned or raised, and, for the
\* claims about intermediate values, the candidates it scored (`scored`) and
\* the skill-set pairs it computed a compatibility for (`pairs`).
NoCall == [op |-> "none"]
Returned(op, args, result, scored, pairs) ==
    [op |-> op, args |-> args, outcome |-> "return", error |-> "",
     result |-> result, scored |-> scored, pairs |-> pairs]
Raised(op, args, error) ==
    [op |-> op, args |-> args, outcome |-> "raise", error |-> error,
     result |-> <<>>, scored |-> <<>>, pairs |-> {}]

\* suggest_degrees_with_skills without the test of line 335 on the target
\* profile: indexing None raises.
SuggestDegreesUnchecked(f, w, similar, target, top_n, sims2) ==
    LET args == [target |-> target, top_n |-> top_n]
        order == f.degrees
        max_freq == SetMax({f.degree_freq[d] : d \in Range(order)})
        max_skill_bonus == SetMax({f.degree_skill_bonus[d] : d \in Range(order)})
        final == Tup([i \in 1..Len(order) |->
                    ScoreDegree(f, w, order[i], sims2[i], max_freq, max_skill_bonus)])
    IN  IF ~f.target.found
        THEN Raised("suggest_degrees_with_skills", args, "TypeError")
        ELSE IF similar = <<>> \/ order = <<>>
        THEN Returned("suggest_degrees_with_skills", args, <<>>, <<>>, {})
        ELSE IF max_skill_bonus = 0
        THEN Raised("suggest_degrees_with_skills", args, "ZeroDivisionError")
        ELSE Returned("suggest_degrees_with_skills", args,
                      Take(SortDesc(final), top_n), final, f.pairs)

\* suggest_degrees_with_skills(target, top_n) for the peers `similar`, the
\* features `f` read from them and the drawn similarity vector `sims2`.
SuggestDegrees(f, w, similar, target, top_n, sims2) ==
    LET args == [target |-> target, top_n |-> top_n]
        order == f.degrees
        max_freq == SetMax({f.degree_freq[d] : d \in Range(order)})
        max_skill_bonus == SetMax({f.degree_skill_bonus[d] : d \in Range(order)})
        final == Tup([i \in 1..Len(order) |->
                    ScoreDegree(f, w, order[i], sims2[i], max_freq, max_skill_bonus)])
    IN  IF ~f.target.found \/ similar = <<>> \/ order = <<>>
        THEN Returned("suggest_degrees_with_skills", args, <<>>, <<>>, {})
        ELSE IF max_skill_bonus = 0
        THEN Raised("suggest_degrees_with_skills", args, "ZeroDivisionError")
        ELSE Returned("suggest_degrees_with_skills", args,
                      Take(SortDesc(final), top_n), final, f.pairs)

\* The ids a call on `target` builds profiles of.
ProfiledBy(P, graph, target) ==
    IF ProfileAt(P, target).found THEN DOMAIN graph \cup {target} ELSE {}

----------------------------------------------------------------------------
(* CourseRecommender.                                                      *)

RECURSIVE Concat(_)
Concat(ss) == IF ss = <<>> THEN <<>> ELSE Head(ss) \o Concat(Tail(ss))

\* The elements of a list, each kept at its first occurrence (the key order
\* of a dict filled in that order).
RECURSIVE Dedupe(_)
Dedupe(l) ==
    IF l = <<>> THEN <<>>
    ELSE <<Head(l)>> \o Dedupe(SelectSeq(Tail(l), LAMBDA x : x # Head(l)))

\* The title allow-list of _parse_titles: the one of build_university_profile
\* and the Greek blocks U+0370-U+03FF, U+1F00-U+1FFF.
AllowedC(c) == AllowedU(c) \/ c \in 880..1023 \/ c \in 7936..8191

\* re.sub(r"[^a-zA-Z0-9 \-&\u0370-\u03FF\u1F00-\u1FFF]", "", str(t)).strip()
CleanTitleC(t) == Strip(SelectSeq(t, AllowedC))

\* _parse_titles(raw_titles): the cleaned form of every truthy candidate.
ParseTitles(field) ==
    IF ~FieldTruthy(field) THEN <<>>
    ELSE LET kept == SelectSeq(TitleValues(field), LAMBDA v : v.truthy)
         IN  Tup([i \in 1..Len(kept) |-> CleanTitleC(kept[i].str)])

\* The stripped, non-empty skill names of a course row.
CourseSkills(course) ==
    {Strip(course.skills[k]) : k \in 1..Len(course.skills)} \ {<<>>}

\* build_degree_profiles(univ_id): one profile per program and non-empty title.
BuildDegreeProfiles(graph, univ_id) ==
    IF univ_id \notin DOMAIN graph THEN <<>>
    ELSE LET programs == graph[univ_id].programs
             OfProgram(k) ==
                LET pc == programs[k].courses
                    titles == SelectSeq(ParseTitles(programs[k].degree_titles),
                                        LAMBDA t : t # <<>>)
                    courses == Sorted({Strip(pc[i].lesson_name) :
                                  i \in {j \in 1..Len(pc) : pc[j].lesson_name # <<>>}})
                    skills == Sorted(UNION {CourseSkills(pc[i]) : i \in 1..Len(pc)})
                IN  Tup([j \in 1..Len(titles) |->
                        [university_id |-> univ_id,
                         program_id |-> <<univ_id, k>>,
                         degree_title |-> titles[j],
                         degree_type |-> programs[k].degree_type,
                         skills |-> skills,
                         courses |-> courses]])
         IN  Concat(Tup([k \in 1..Len(programs) |-> OfProgram(k)]))

\* The profiles of every university, as the callers of the recommender
\* collect them (core2.py:408-413, main.py:262-267).
AllProfiles(graph) ==
    LET ids == Asc(DOMAIN graph)
    IN  Concat(Tup([i \in 1..Len(ids) |-> BuildDegreeProfiles(graph, ids[i])]))

\* The document of a degree profile in find_similar_degrees.
DegreeText(p) == Strip(Join(p.skills \o p.courses))

\* The candidates when the degree type is not compared.
DegreeCandidatesOfAnyType(target_profile, all_profiles) ==
    SelectSeq(all_profiles,
              LAMBDA p : /\ p.university_id # target_profile.university_id
                         /\ DegreeText(p) # <<>>)

\* The candidates of find_similar_degrees (lines 222-233).
DegreeCandidates(target_profile, all_profiles) ==
    SelectSeq(all_profiles,
              LAMBDA p : /\ p.degree_type = target_profile.degree_type
                         /\ p.university_id # target_profile.university_id
                         /\ DegreeText(p) # <<>>)

\* Does find_similar_degrees reach the vectoriser, and does it raise there?
SimilarDegreesFits(target_profile, all_profiles) ==
    DegreeText(target_profile) # <<>> /\ DegreeCandidates(target_profile, all_profiles) # <<>>

SimilarDegreesRaises(target_profile, all_profiles) ==
    LET cands == DegreeCandidates(target_profile, all_profiles)
    IN  /\ SimilarDegreesFits(target_profile, all_profiles)
        /\ EmptyVocabulary(<<DegreeText(target_profile)>> \o
                           Tup([i \in 1..Len(cands) |-> DegreeText(cands[i])]))

\* The similarity vectors find_similar_degrees can compute (lines 240-242).
SimilarDegreesSims(target_profile, all_profiles) ==
    LET cands == DegreeCandidates(target_profile, all_profiles)
    IN  IF ~SimilarDegreesFits(target_profile, all_profiles)
           \/ SimilarDegreesRaises(target_profile, all_profiles)
        THEN {<<>>}
        ELSE CosineSims(DegreeText(target_profile),
                        Tup([i \in 1..Len(cands) |-> DegreeText(cands[i])]))

\* find_similar_degrees(target_profile, all_profiles, top_n) when it returns.
SimilarDegrees(target_profile, all_profiles, top_n, sims) ==
    LET cands == DegreeCandidates(target_profile, all_profiles)
        ranked == Take(SortDesc(Tup([i \in 1..Len(cands) |->
                                       [p |-> cands[i], key |-> sims[i]]])), top_n)
    IN  IF ~SimilarDegreesFits(target_profile, all_profiles) THEN <<>>
        ELSE Tup([i \in 1..Len(ranked) |-> ranked[i].p])

\* The skill sets Course.lesson_name == cname ... .first() can give: the query
\* has no ORDER BY, so any row with that name; the empty set when there is none.
CourseSpecificSkills(graph, cname) ==
    LET rows == UNION {{u.courses[i] : i \in 1..Len(u.courses)} : u \in Range(graph)}
        named == {c \in rows : c.lesson_name = cname}
    IN  IF named = {} THEN {{}} ELSE {CourseSkills(c) : c \in named}

\* The info payload [{"info": text}] of the course facades (core2.py words
\* the same payloads in Greek).
Info(text) == <<[info |-> text]>>

\* One scored course (lines 337-374; core2.py:263-295).
ScoreCourse(cname, freq, max_freq, skills, target_skills, new_skills, sim) ==
    LET freq_score == Rat(freq, max_freq)
        compat_skills == skills \cap target_skills
        union_size == Cardinality(skills \cup target_skills)
        compat_score == IF union_size = 0 THEN RZero
                        ELSE Rat(Cardinality(compat_skills), union_size)
        novelty_score == OneMinus(sim)
        new_skill_score == Rat(Cardinality(new_skills), Cardinality(skills) + 1)
        compatibility_factor == IF RLeq(<<1, 10>>, compat_score) THEN ROne ELSE <<5, 100>>
        total_score ==
            RoundTo(RMul(compatibility_factor,
                         RAdd(RAdd(RMul(<<40, 100>>, freq_score),
                                   RMul(<<35, 100>>, compat_score)),
                              RAdd(RMul(<<15, 100>>, new_skill_score),
                                   RMul(<<10, 100>>, novelty_score.q)))), 1000)
    IN  [course_name |-> cname,
         score |-> total_score,
         key |-> Sim(<<total_score, 1>>, 0),
         new_skills |-> Sorted(new_skills),
         compatible_skills |-> Sorted(compat_skills),
         freq_score |-> freq_score,
         compat_score |-> compat_score,
         novelty_score |-> novelty_score,
         new_skill_score |-> new_skill_score,
         compatibility_factor |-> compatibility_factor]

\* The aggregation without the test `cname in target_courses` of line 289.
CourseFeaturesUnfiltered(target_degree, similar_degrees, lookup) ==
    LET target_skills == Range(target_degree.skills)
        registers(i, c) ==
            /\ c # <<>>
            /\ (lookup[c] # {} \/ similar_degrees[i].skills # <<>>)
        in(c) == {i \in 1..Len(similar_degrees) :
                    c \in Range(similar_degrees[i].courses) /\ registers(i, c)}
        courses_list ==
            Dedupe(Concat(Tup([i \in 1..Len(similar_degrees) |->
                SelectSeq(similar_degrees[i].courses, LAMBDA c : registers(i, c))])))
    IN  [target_skills |-> target_skills,
         courses_list |-> courses_list,
         course_freq |-> Fn([c \in Range(courses_list) |-> Cardinality(in(c))]),
         course_skills |-> Fn([c \in Range(courses_list) |->
                UNION {Range(similar_degrees[i].skills) \cup lookup[c] : i \in in(c)}]),
         new_skills |-> Fn([c \in Range(courses_list) |-> lookup[c] \ target_skills])]

\* What suggest_courses_for_degree aggregates from the similar degrees
\* (lines 276-316), the course rows looked up being those of `lookup`.
CourseFeatures(target_degree, similar_degrees, lookup) ==
    LET target_skills == Range(target_degree.skills)
        target_courses == Range(target_degree.courses)
        registers(i, c) ==
            /\ c # <<>>
            /\ c \notin target_courses
            /\ (lookup[c] # {} \/ similar_degrees[i].skills # <<>>)
        in(c) == {i \in 1..Len(similar_degrees) :
                    c \in Range(similar_degrees[i].courses) /\ registers(i, c)}
        courses_list ==
            Dedupe(Concat(Tup([i \in 1..Len(similar_degrees) |->
                SelectSeq(similar_degrees[i].courses, LAMBDA c : registers(i, c))])))
    IN  [target_skills |-> target_skills,
         courses_list |-> courses_list,
         course_freq |-> Fn([c \in Range(courses_list) |-> Cardinality(in(c))]),
         course_skills |-> Fn([c \in Range(courses_list) |->
                UNION {Range(similar_degrees[i].skills) \cup lookup[c] : i \in in(c)}]),
         new_skills |-> Fn([c \in Range(courses_list) |-> lookup[c] \ target_skills])]

\* The documents of the candidate courses and of the target (lines 315-318).
CourseDocs(f) ==
    Tup([i \in 1..Len(f.courses_list) |-> Join(Sorted(f.course_skills[f.courses_list[i]]))])

AllBlank(docs) == \A i \in 1..Len(docs) : Strip(docs[i]) = <<>>

\* The similarity vectors of a suggest_courses_for_degree call that scores.
CourseSims(f) ==
    IF f.courses_list = <<>>
       \/ EmptyVocabulary(Append(CourseDocs(f), Join(Sorted(f.target_skills))))
    THEN {<<>>}
    ELSE CosineSims(Join(Sorted(f.target_skills)), CourseDocs(f))

\* The outcome of suggest_courses_for_degree(target_degree, similar_degrees,
\* top_n) for the aggregated features `f` and the similarity vector `sims`.
SuggestCourses(op, args, similar_degrees, f, top_n, sims) ==
    LET docs == Append(CourseDocs(f), Join(Sorted(f.target_skills)))
        max_freq == SetMax({f.course_freq[c] : c \in Range(f.courses_list)})
        results == Tup([i \in 1..Len(f.courses_list) |->
            LET c == f.courses_list[i]
            IN  ScoreCourse(c, f.course_freq[c], max_freq, f.course_skills[c],
                            f.target_skills, f.new_skills[c], sims[i])])
    IN  IF similar_degrees = <<>>
        THEN Returned(op, args, Info("No similar degrees available for recommendation."),
                      <<>>, {})
        ELSE IF f.courses_list = <<>>
        THEN Returned(op, args, Info("No new courses found for recommendation."), <<>>, {})
        ELSE IF AllBlank(docs)
        THEN Returned(op, args,
                 Info("Recommendation failed due to lack of skill text for comparison."),
                 <<>>, {})
        ELSE IF EmptyVocabulary(docs)
        THEN Raised(op, args, "ValueError")
        ELSE Returned(op, args, Take(SortDesc(results), top_n), results,
                      {[a |-> f.course_skills[f.courses_list[i]], b |-> f.target_skills,
                        value |-> results[i].compat_score] : i \in 1..Len(results)})

\* core2.py: suggest_courses_for_degree aggregates without looking courses up
\* (lines 216-228): every new course registers, with the degree-level skills,
\* and new_skills is skills - target_skills (line 257).
CourseFeaturesCore2(target_degree, similar_degrees) ==
    LET target_skills == Range(target_degree.skills)
        target_courses == Range(target_degree.courses)
        in(c) == {i \in 1..Len(similar_degrees) : c \in Range(similar_degrees[i].courses)}
        courses_list ==
            Dedupe(Concat(Tup([i \in 1..Len(similar_degrees) |->
                SelectSeq(similar_degrees[i].courses,
                          LAMBDA c : c # <<>> /\ c \notin target_courses)])))
        skills(c) == UNION {Range(similar_degrees[i].skills) : i \in in(c)}
    IN  [target_skills |-> target_skills,
         courses_list |-> courses_list,
         course_freq |-> Fn([c \in Range(courses_list) |-> Cardinality(in(c))]),
         course_skills |-> Fn([c \in Range(courses_list) |-> skills(c)]),
         new_skills |-> Fn([c \in Range(courses_list) |-> skills(c) \ target_skills])]

\* normalize_name (core2.py:29-35), for names without Greek letters.
NormalizeName(name) ==
    LET kept == Strip(SelectSeq(name, LAMBDA c : IsAlnum(c) \/ IsSpace(c)
                                                \/ c \in 880..1023 \/ c \in 7936..8191))
    IN  Tup([i \in 1..Len(kept) |-> IF kept[i] \in 97..122 THEN kept[i] - 32 ELSE kept[i]])

\* The candidate groups of suggest_new_degree_proposals (core2.py:338-351), in
\* the order their titles are first met.
CandidateGroups(target_univ_id, target_profiles, all_profiles) ==
    LET taken == {NormalizeName(target_profiles[i].degree_title) :
                    i \in 1..Len(target_profiles)}
        open == SelectSeq(all_profiles,
                    LAMBDA d : /\ d.university_id # target_univ_id
                               /\ NormalizeName(d.degree_title) \notin taken)
        keys == Dedupe(Tup([i \in 1..Len(open) |-> NormalizeName(open[i].degree_title)]))
    IN  Tup([k \in 1..Len(keys) |->
            SelectSeq(open, LAMBDA d : NormalizeName(d.degree_title) = keys[k])])

\* The outcomes of the loop of suggest_new_degree_proposals over the groups
\* still to do (core2.py:355-400), `acc` being new_degree_suggestions so far.
\* Reading c['score'] of a record without that key raises KeyError.
RECURSIVE ProposalOutcomes(_, _, _, _, _)
ProposalOutcomes(args, target_degree, groups, top_n, acc) ==
    LET op == "suggest_new_degree_proposals"
        cand_degrees == Head(groups)
        f == CourseFeaturesCore2(target_degree, cand_degrees)
        After(o) ==
            LET kept == SelectSeq(o.result, LAMBDA c : c.score > 0)
            IN  IF o.outcome = "raise" THEN {Raised(op, args, o.error)}
                ELSE IF \E i \in 1..Len(o.result) : "score" \notin DOMAIN o.result[i]
                THEN {Raised(op, args, "KeyError")}
                ELSE ProposalOutcomes(args, target_degree, Tail(groups), top_n,
                        IF kept = <<>> THEN acc
                        ELSE Append(acc, [degree_title |-> cand_degrees[1].degree_title,
                                          degree_type |-> cand_degrees[1].degree_type,
                                          suggested_courses |-> kept]))
    IN  IF groups = <<>>
        THEN {Returned(op, args, IF acc = <<>> THEN Info("No new degrees found.") ELSE acc,
                       <<>>, {})}
        ELSE UNION {After(SuggestCourses(op, args, cand_degrees, f, top_n, sims)) :
                      sims \in CourseSims(f)}

\* suggest_new_degree_proposals(target_univ_id, all_profiles, top_n).
NewDegreeProposals(graph, target_univ_id, top_n) ==
    LET args == [target |-> target_univ_id, top_n |-> top_n]
        target_profiles == BuildDegreeProfiles(graph, target_univ_id)
        virtual_target_profile ==
            [university_id |-> target_univ_id, skills |-> <<>>, courses |-> <<>>]
        groups == CandidateGroups(target_univ_id, target_profiles, AllProfiles(graph))
    IN  IF groups = <<>>
        THEN {Returned("suggest_new_degree_proposals", args,
                       Info("No new degrees found."), <<>>, {})}
        ELSE ProposalOutcomes(args,
                 IF target_profiles # <<>> THEN target_profiles[1]
                 ELSE virtual_target_profile,
                 groups, top_n, <<>>)

----------------------------------------------------------------------------
(* The entity graphs of the model.                                         *)

\* skill names: "py", "Py", "ml", "c"
SkPy == <<112, 121>>
SkPyCap == <<80, 121>>
SkMl == <<109, 108>>
SkC == <<99>>
\* course names: "db", "os "
CoDb == <<100, 98>>
CoOs == <<111, 115, 32>>
\* degree titles: "BSc", "MSc AI", "PhD (ml)"
TiBSc == <<66, 83, 99>>
TiMScAI == <<77, 83, 99, 32, 65, 73>>
TiPhD == <<80, 104, 68, 32, 40, 109, 108, 41>>

CourseRow(name, skills) == [lesson_name |-> name, skills |-> skills]
ProgramRow(titles) == [degree_titles |-> titles]
UnivRow(courses, programs) == [courses |-> courses, programs |-> programs]

\* The rows the target university (id 1) is drawn from.
TargetRows ==
    { UnivRow(<<CourseRow(CoDb, <<SkPy>>)>>, <<ProgramRow(TitleList(<<TiBSc>>))>>),
      UnivRow(<<CourseRow(CoDb, <<SkPy, SkPyCap>>)>>, <<ProgramRow(TitleList(<<TiBSc>>))>>),
      UnivRow(<<>>, <<>>) }

\* The rows the other universities (ids 2, 3) are drawn from.
PeerRows ==
    { UnivRow(<<>>, <<>>),
      UnivRow(<<CourseRow(CoDb, <<SkPy>>)>>, <<ProgramRow(TitleList(<<TiBSc>>))>>),
      UnivRow(<<CourseRow(CoDb, <<SkPy>>)>>,
              <<ProgramRow(TitleList(<<TiBSc>>)), ProgramRow(TitleList(<<TiMScAI>>))>>),
      UnivRow(<<CourseRow(CoOs, <<SkPy, SkMl>>)>>,
              <<ProgramRow(TitleList(<<TiMScAI, TiPhD>>))>>),
      UnivRow(<<CourseRow(SkC, <<SkC>>)>>, <<>>) }

UnivIds == {1, 2, 3}

GraphsU ==
    {g \in UNION {[ids -> TargetRows \cup PeerRows] : ids \in SUBSET UnivIds} :
        /\ 1 \in DOMAIN g => g[1] \in TargetRows
        /\ \A i \in DOMAIN g \ {1} : g[i] \in PeerRows}

\* The weights arguments of the model: None, {}, all zero, one key, a
\* negative weight, an unknown key.
WeightArgs ==
    { NoWeights,
      WeightsDict(<<>>),
      WeightsDict([k \in WeightKeys |-> RZero]),
      WeightsDict([k \in {"frequency"} |-> ROne]),
      WeightsDict([k \in {"frequency"} |-> <<-1, 1>>]),
      WeightsDict([k \in {"popularity"} |-> ROne]) }

NoV4 == [tfidf_weight |-> RZero, overlap_weight |-> RZero]

\* No call in progress.  reads counts, per university, the times
\* build_university_profile read its rows; seen holds every profile a build
\* returned, with the number of changes committed before it.
NoRun == [stage |-> "idle", op |-> "none", target |-> 0, top_n |-> 0, started |-> 0,
          similar |-> <<>>, f |-> <<>>, reads |-> [u \in UnivIds |-> 0], seen |-> {}]

----------------------------------------------------------------------------
(* UniversityRecommender._get_degree_skills_similarity.                    *)

\* ranked_skills[:5]
TopSkillsLimit == 5

\* The skill_score values drawn for a skill: round(0.7 + 0.25 * boosted, 3)
\* lies in 0.700..0.950, in thousandths; the power 0.8 and the tf-idf weight
\* it comes from are irrational, so any level may fall on any skill.
SkillScoreLevels == {700, 950}

\* The peers among `ids` whose profile lists the degree (lines 262-265).
OfferingPeers(P, ids, target_degree) ==
    SelectSeq(ids, LAMBDA u : /\ ProfileAt(P, u).found
                              /\ target_degree \in Range(ProfileAt(P, u).degrees))

\* The skill names of a peer that are not, ignoring case, skills of the
\* target (lines 266-269).
FilteredSkills(p, target_skills_raw) ==
    SelectSeq(p.skills_raw_names, LAMBDA s : Lower(s) \notin {Lower(t) : t \in target_skills_raw})

\* The keys of skill_counter, in insertion order (lines 258-274).
CountedSkills(P, ids, target_degree, target_skills_raw) ==
    With(OfferingPeers(P, ids, target_degree), LAMBDA peers :
        Dedupe(Concat(Tup([i \in 1..Len(peers) |->
            Tup([k \in 1..Len(FilteredSkills(P[peers[i]], target_skills_raw)) |->
                    Strip(FilteredSkills(P[peers[i]], target_skills_raw)[k])])]))))

\* The score assignments a call can compute for the counted skills.
SkillScores(skills) == [Range(skills) -> SkillScoreLevels]

\* _get_degree_skills_similarity(similar_univ_ids, target_degree,
\* target_skills_raw) with the scores `score` (lines 276-313).
GetDegreeSkills(P, ids, target_degree, target_skills_raw, score) ==
    With(CountedSkills(P, ids, target_degree, target_skills_raw), LAMBDA skills :
        With(Take(SortDesc(Tup([i \in 1..Len(skills) |->
                     [skill_name |-> skills[i], skill_score |-> score[skills[i]],
                      key |-> Sim(<<score[skills[i]], 1>>, 0)]])), TopSkillsLimit),
             LAMBDA ranked :
                Tup([i \in 1..Len(ranked) |->
                       [skill_name |-> ranked[i].skill_name,
                        skill_score |-> ranked[i].skill_score]])))

\* core.py: the tokens of (?u)\b[a-zA-Z][a-zA-Z]+\b, lower-cased: the runs
\* of word characters that are two or more ASCII letters.
LetterTokens(doc) ==
    SelectSeq(Tokens(doc), LAMBDA t : \A i \in 1..Len(t) : t[i] \in 97..122)

\* core.py: the features of one document for ngram_range=(1, 2).
NGrams(doc) ==
    With(LetterTokens(doc), LAMBDA toks :
        Range(toks) \cup {toks[i] \o <<32>> \o toks[i + 1] : i \in 1..(Len(toks) - 1)})

\* str.capitalize()
Capitalize(s) ==
    Tup([i \in 1..Len(s) |->
           IF i = 1 /\ s[i] \in 97..122 THEN s[i] - 32
           ELSE IF i > 1 THEN LowerChar(s[i]) ELSE s[i]])

\* core.py: the features that become ranked_skills, in the order of
\* get_feature_names_out (lines 201-246).
RankedFeatures(P, ids, target_degree, target_skills_raw) ==
    With(OfferingPeers(P, ids, target_degree), LAMBDA peers :
        Sorted(UNION {NGrams(Join(P[peers[i]].skills_raw_names)) : i \in 1..Len(peers)}
               \ {Lower(t) : t \in target_skills_raw}))

\* core.py: the normalised weights round(weight / max_score, 3) a call can
\* compute, in thousandths: the heaviest feature gets 1.0.
FeatureScoreLevels == {500, 1000}

FeatureScores(features) ==
    {s \in [Range(features) -> FeatureScoreLevels] :
        features # <<>> => \E t \in Range(features) : s[t] = 1000}

\* core.py: _get_degree_skills_similarity (lines 198-264).
GetDegreeSkillsCore(P, ids, target_degree, target_skills_raw, score) ==
    With(RankedFeatures(P, ids, target_degree, target_skills_raw), LAMBDA features :
        With(Take(SortDesc(Tup([i \in 1..Len(features) |->
                     [skill_name |-> Capitalize(features[i]),
                      skill_score |-> score[features[i]],
                      key |-> Sim(<<score[features[i]], 1>>, 0)]])), TopSkillsLimit),
             LAMBDA ranked :
                Tup([i \in 1..Len(ranked) |->
                       [skill_name |-> ranked[i].skill_name,
                        skill_score |-> ranked[i].skill_score]])))

----------------------------------------------------------------------------
(* One request served by a fresh UniversityRecommender, as the endpoints   *)
(* of main.py and routers/recommendations.py build it.                     *)

InitU ==
    /\ engine = "UniversityRecommender"
    /\ db \in GraphsU
    /\ weights_arg \in WeightArgs
    /\ weights = InitWeights(weights_arg)
    /\ cache_enabled \in BOOLEAN
    /\ profile_cache = <<>>
    /\ v4 = NoV4
    /\ call = NoCall
    /\ ncalls = 0
    /\ run = NoRun
    /\ nedits = 0

FindSimilarUniversities ==
    /\ engine = "UniversityRecommender"
    /\ ncalls < 1
    /\ \E target \in UnivIds, top_n \in 0..MaxTopN :
       \E P \in {Profiles(db, profile_cache, cache_enabled)} :
       \E sims \in FindSimilarSims(db, P, target) :
          /\ call' = Returned("find_similar_universities",
                              [target |-> target, top_n |-> top_n],
                              FindSimilar(db, P, target, top_n, sims), <<>>, {})
          /\ profile_cache' = CacheAfter(db, profile_cache, cache_enabled,
                                         ProfiledBy(P, db, target))
    /\ ncalls' = ncalls + 1
    /\ UNCHANGED <<engine, db, weights_arg, weights, cache_enabled, v4, run, nedits>>

SuggestDegreesWithSkills ==
    /\ engine = "UniversityRecommender"
    /\ ncalls < 1
    /\ \E target \in UnivIds, top_n \in 0..MaxTopN :
       \E P \in {Profiles(db, profile_cache, cache_enabled)} :
       \E sims1 \in FindSimilarSims(db, P, target) :
       \E similar \in {FindSimilar(db, P, target, SimilarLimit, sims1)} :
       \E order \in SuggestOrders(P, target, similar) :
       \E f \in {DegreeFeatures(P, target, similar, order)} :
       \E sims2 \in SuggestSims(f) :
          /\ call' = SuggestDegrees(f, weights, similar, target, top_n, sims2)
          /\ profile_cache' = CacheAfter(db, profile_cache, cache_enabled,
                                         ProfiledBy(P, db, target))
    /\ ncalls' = ncalls + 1
    /\ UNCHANGED <<engine, db, weights_arg, weights, cache_enabled, v4, run, nedits>>

NextU == FindSimilarUniversities \/ SuggestDegreesWithSkills

SpecU == InitU /\ [][NextU]_vars

----------------------------------------------------------------------------
(* One UniversityRecommender kept across two calls, a call of              *)
(* suggest_degrees_with_skills taken in the stages between which it calls  *)
(* build_university_profile again, while another request commits one       *)
(* change to the entity graph.                                             *)

\* The rows of universities 1 and 2.
SessionRows ==
    { UnivRow(<<CourseRow(CoDb, <<SkPy>>)>>, <<ProgramRow(TitleList(<<TiBSc>>))>>),
      UnivRow(<<CourseRow(CoDb, <<SkPy>>)>>,
              <<ProgramRow(TitleList(<<TiBSc>>)), ProgramRow(TitleList(<<TiMScAI>>))>>),
      UnivRow(<<CourseRow(CoOs, <<SkPy, SkMl>>)>>,
              <<ProgramRow(TitleList(<<TiMScAI, TiPhD>>))>>) }

GraphsS == [{1, 2} -> SessionRows]

InitS ==
    /\ engine = "UniversityRecommender"
    /\ db \in GraphsS
    /\ weights_arg = NoWeights
    /\ weights = InitWeights(NoWeights)
    /\ cache_enabled \in BOOLEAN
    /\ profile_cache = <<>>
    /\ v4 = NoV4
    /\ call = NoCall
    /\ ncalls = 0
    /\ run = NoRun
    /\ nedits = 0

Occurrences(ids, u) == Cardinality({i \in 1..Len(ids) : ids[i] = u})

\* How often the calls build_university_profile(id), for the ids of `ids` in
\* this order, read the rows of university u (lines 90-99): once at most with
\* the cache, at every call without it.
ReadsOf(graph, cache, enabled, ids, u) ==
    IF u \notin DOMAIN graph THEN 0
    ELSE IF ~enabled THEN Occurrences(ids, u)
    ELSE IF u \in DOMAIN cache \/ Occurrences(ids, u) = 0 THEN 0
    ELSE 1

\* The run after the calls build_university_profile(id) for the ids of `ids`.
Built(r, graph, cache, enabled, ids, version) ==
    [r EXCEPT
       !.reads = [u \in UnivIds |-> r.reads[u] + ReadsOf(graph, cache, enabled, ids, u)],
       !.seen = r.seen \cup {[id |-> ids[i], version |-> version,
                              profile |-> BuildProfile(graph, cache, enabled, ids[i])] :
                                i \in 1..Len(ids)}]

Started(op, target, top_n, version) ==
    [NoRun EXCEPT !.op = op, !.target = target, !.top_n = top_n, !.started = version]

\* The ids find_similar_universities builds profiles of (lines 167, 183).
RankedIds(graph, P, target) ==
    <<target>> \o (IF ProfileAt(P, target).found THEN Asc(DOMAIN graph \ {target}) ELSE <<>>)

\* The ids of the peers, as lines 338 and 353 read them.
SimilarIds(similar) == Tup([i \in 1..Len(similar) |-> similar[i].university_id])

\* A whole find_similar_universities call.
SessionFindSimilar ==
    /\ engine = "UniversityRecommender"
    /\ run.stage \in {"idle", "done"}
    /\ ncalls < 2
    /\ \E target \in DOMAIN db, top_n \in {MaxTopN} :
       \E P \in {Profiles(db, profile_cache, cache_enabled)} :
       \E sims \in FindSimilarSims(db, P, target) :
          /\ call' = Returned("find_similar_universities",
                              [target |-> target, top_n |-> top_n],
                              FindSimilar(db, P, target, top_n, sims), <<>>, {})
          /\ run' = [Built(Started("find_similar_universities", target, top_n, nedits),
                           db, profile_cache, cache_enabled,
                           RankedIds(db, P, target), nedits)
                     EXCEPT !.stage = "done"]
          /\ profile_cache' = CacheAfter(db, profile_cache, cache_enabled,
                                         ProfiledBy(P, db, target))
    /\ ncalls' = ncalls + 1
    /\ UNCHANGED <<engine, db, weights_arg, weights, cache_enabled, v4, nedits>>

\* suggest_degrees_with_skills, line 332: the peers.
RankPeers ==
    /\ engine = "UniversityRecommender"
    /\ run.stage \in {"idle", "done"}
    /\ ncalls < 2
    /\ \E target \in DOMAIN db, top_n \in {MaxTopN} :
       \E P \in {Profiles(db, profile_cache, cache_enabled)} :
       \E sims1 \in FindSimilarSims(db, P, target) :
          /\ run' = [Built(Started("suggest_degrees_with_skills", target, top_n, nedits),
                           db, profile_cache, cache_enabled,
                           RankedIds(db, P, target), nedits)
                     EXCEPT !.stage = "ranked",
                            !.similar = FindSimilar(db, P, target, SimilarLimit, sims1)]
          /\ profile_cache' = CacheAfter(db, profile_cache, cache_enabled,
                                         ProfiledBy(P, db, target))
    /\ UNCHANGED <<engine, db, weights_arg, weights, cache_enabled, v4, call, ncalls,
                   nedits>>

\* suggest_degrees_with_skills, lines 333-378: the target's profile again,
\* the peers' profiles again, the candidate degrees.
ExtractCandidates ==
    /\ engine = "UniversityRecommender"
    /\ run.stage = "ranked"
    /\ \E P \in {Profiles(db, profile_cache, cache_enabled)} :
       \E ids \in {<<run.target>> \o
                   (IF ProfileAt(P, run.target).found THEN SimilarIds(run.similar)
                    ELSE <<>>)} :
       \E order \in SuggestOrders(P, run.target, run.similar) :
          /\ run' = [Built(run, db, profile_cache, cache_enabled, ids, nedits)
                     EXCEPT !.stage = "extracted",
                            !.f = <<DegreeFeatures(P, run.target, run.similar, order)>>]
          /\ profile_cache' = CacheAfter(db, profile_cache, cache_enabled, Range(ids))
    /\ UNCHANGED <<engine, db, weights_arg, weights, cache_enabled, v4, call, ncalls,
                   nedits>>

\* suggest_degrees_with_skills, lines 380-436: the scores and, for every
\* scored degree, _get_degree_skills_similarity, which builds the profile of
\* every peer once more (lines 262-263).
ScoreCandidates ==
    /\ engine = "UniversityRecommender"
    /\ run.stage = "extracted"
    /\ \E sims2 \in SuggestSims(run.f[1]) :
       \E c \in {SuggestDegrees(run.f[1], weights, run.similar, run.target,
                                run.top_n, sims2)} :
       \E ids \in {IF c.outcome = "return" /\ c.scored # <<>>
                   THEN Concat(Tup([i \in 1..Len(c.scored) |-> SimilarIds(run.similar)]))
                   ELSE <<>>} :
          /\ call' = c
          /\ run' = [Built(run, db, profile_cache, cache_enabled, ids, nedits)
                     EXCEPT !.stage = "done", !.f = <<>>]
          /\ profile_cache' = CacheAfter(db, profile_cache, cache_enabled, Range(ids))
    /\ ncalls' = ncalls + 1
    /\ UNCHANGED <<engine, db, weights_arg, weights, cache_enabled, v4, nedits>>

\* Another request commits a change to the rows of one university.
ModifyEntityGraph ==
    /\ engine = "UniversityRecommender"
    /\ nedits < 1
    /\ \E u \in DOMAIN db :
       \E row \in SessionRows \ {db[u]} :
          db' = [db EXCEPT ![u] = row]
    /\ nedits' = nedits + 1
    /\ UNCHANGED <<engine, weights_arg, weights, cache_enabled, profile_cache, v4, call,
                   ncalls, run>>

NextS ==
    \/ SessionFindSimilar
    \/ RankPeers \/ ExtractCandidates \/ ScoreCandidates
    \/ ModifyEntityGraph

SpecS == InitS /\ [][NextS]_vars

----------------------------------------------------------------------------
(* One request served by a fresh CourseRecommender: the endpoints collect   *)
(* the profiles of every university, take a degree of the target as the     *)
(* target profile and pass its five most similar degrees on.                *)

\* course names "ai", "ml"
CoAi == <<97, 105>>
CoMl == <<109, 108>>

DegreeRow(type, titles, courses) ==
    [degree_type |-> type, degree_titles |-> titles, courses |-> courses]

\* A university with the programs `programs`; its courses are theirs.
UnivOf(programs) ==
    UnivRow(Concat(Tup([k \in 1..Len(programs) |-> programs[k].courses])), programs)

BScDb == DegreeRow("BSc", TitleList(<<TiBSc>>), <<CourseRow(CoDb, <<SkPy>>)>>)
BScDbC == DegreeRow("BSc", TitleList(<<TiBSc>>), <<CourseRow(CoDb, <<SkC>>)>>)
BScC == DegreeRow("BSc", TitleList(<<TiBSc>>), <<CourseRow(SkC, <<SkC>>)>>)
BScNone == DegreeRow("BSc", TitleList(<<TiBSc>>), <<>>)
BScDb2 == DegreeRow("BSc", TitleList(<<TiBSc>>), <<CourseRow(CoDb, <<SkPy, SkMl>>)>>)
MScDb == DegreeRow("MSc", TitleList(<<TiMScAI>>), <<CourseRow(CoDb, <<SkPy>>)>>)

\* The programs of the target university (id 1).
TargetProgramsC ==
    {<<>>, <<BScDb>>, <<BScDb2>>, <<BScDbC>>, <<BScC>>, <<BScNone>>, <<BScDb, MScDb>>}

\* The programs of the other universities (ids 2, 3).
PeerProgramsC ==
    { <<>>, <<BScDb>>, <<BScC>>, <<MScDb>>,
      <<DegreeRow("BSc", TitleList(<<TiBSc>>),
                  <<CourseRow(CoDb, <<SkPy>>), CourseRow(CoOs, <<SkPy, SkMl>>)>>)>>,
      <<DegreeRow("BSc", TitleList(<<TiMScAI>>), <<CourseRow(CoMl, <<SkMl>>)>>)>>,
      <<DegreeRow("BSc", TitleList(<<TiBSc>>), <<CourseRow(CoOs, <<SkC>>)>>)>>,
      <<DegreeRow("BSc", TitleList(<<TiBSc>>), <<CourseRow(CoAi, <<SkPy>>)>>)>>,
      <<DegreeRow("BSc", TitleList(<<TiPhD>>),
                  <<CourseRow(CoAi, <<SkPy>>), CourseRow(CoMl, <<SkMl>>)>>)>> }

GraphsC ==
    {g \in UNION {[ids -> {UnivOf(ps) : ps \in TargetProgramsC \cup PeerProgramsC}] :
                     ids \in {UnivIds, UnivIds \ {1}}} :
        /\ 1 \in DOMAIN g => g[1].programs \in TargetProgramsC
        /\ \A i \in DOMAIN g \ {1} : g[i].programs \in PeerProgramsC}

\* find_similar_degrees(..., top_n=5) of the callers.
SimilarDegreesLimit == 5

\* One row per course name the similar degrees list, for the lookups of a call.
Lookups(graph, similar_degrees) ==
    LET names == UNION {Range(similar_degrees[i].courses) : i \in 1..Len(similar_degrees)}
    IN  {l \in [names -> UNION {CourseSpecificSkills(graph, c) : c \in names}] :
            \A c \in names : l[c] \in CourseSpecificSkills(graph, c)}

InitC ==
    /\ engine = "CourseRecommender"
    /\ db \in GraphsC
    /\ weights_arg = NoWeights
    /\ weights = <<>>
    /\ cache_enabled = FALSE
    /\ profile_cache = <<>>
    /\ v4 = NoV4
    /\ call = NoCall
    /\ ncalls = 0
    /\ run = NoRun
    /\ nedits = 0

FindSimilarDegrees ==
    /\ engine = "CourseRecommender"
    /\ ncalls < 1
    /\ \E target \in UnivIds, top_n \in 0..MaxTopN :
       \E tp \in Range(BuildDegreeProfiles(db, target)) :
       \E all \in {AllProfiles(db)} :
       \E args \in {[target |-> tp, top_n |-> top_n]} :
          IF SimilarDegreesRaises(tp, all)
          THEN call' = Raised("find_similar_degrees", args, "ValueError")
          ELSE \E sims \in SimilarDegreesSims(tp, all) :
                  call' = Returned("find_similar_degrees", args,
                                   SimilarDegrees(tp, all, top_n, sims), <<>>, {})
    /\ ncalls' = ncalls + 1
    /\ UNCHANGED <<engine, db, weights_arg, weights, cache_enabled, profile_cache, v4, run, nedits>>

SuggestCoursesForDegree ==
    /\ engine = "CourseRecommender"
    /\ ncalls < 1
    /\ \E target \in UnivIds, top_n \in 0..MaxTopN :
       \E tp \in Range(BuildDegreeProfiles(db, target)) :
       \E all \in {AllProfiles(db)} :
          /\ ~SimilarDegreesRaises(tp, all)
          /\ \E sims1 \in SimilarDegreesSims(tp, all) :
             \E similar \in {SimilarDegrees(tp, all, SimilarDegreesLimit, sims1)} :
             \E lookup \in Lookups(db, similar) :
             \E f \in {CourseFeatures(tp, similar, lookup)} :
             \E sims2 \in CourseSims(f) :
                call' = SuggestCourses("suggest_courses_for_degree",
                                       [target |-> tp, top_n |-> top_n,
                                        similar_degrees |-> similar],
                                       similar, f, top_n, sims2)
    /\ ncalls' = ncalls + 1
    /\ UNCHANGED <<engine, db, weights_arg, weights, cache_enabled, profile_cache, v4, run, nedits>>

SuggestNewDegreeProposals ==
    /\ engine = "CourseRecommender"
    /\ ncalls < 1
    /\ \E target \in UnivIds, top_n \in 0..MaxTopN :
          call' \in NewDegreeProposals(db, target, top_n)
    /\ ncalls' = ncalls + 1
    /\ UNCHANGED <<engine, db, weights_arg, weights, cache_enabled, profile_cache, v4, run, nedits>>

NextC == FindSimilarDegrees \/ SuggestCoursesForDegree \/ SuggestNewDegreeProposals

SpecC == InitC /\ [][NextC]_vars

----------------------------------------------------------------------------
(* CourseRecommenderV4 (student_recommender.py).                           *)

\* The characters _normalize_skill keeps: a-z, 0-9, the Greek blocks,
\* white space and - + . #
AllowedSkillChar(c) ==
    \/ c \in 97..122 \/ c \in 48..57 \/ c \in 880..1023 \/ c \in 7936..8191
    \/ IsSpace(c) \/ c \in {45, 43, 46, 35}

\* _normalize_skill(s): "" for a falsy s, else strip, lower, filter.
NormalizeSkill(s) ==
    IF s = <<>> THEN <<>> ELSE SelectSeq(Lower(Strip(s)), AllowedSkillChar)

\* w in s
Contains(s, w) == \E i \in 1..(Len(s) - Len(w) + 1) : SubSeq(s, i, i + Len(w) - 1) = w

\* "optional"
OptionalWord == <<111, 112, 116, 105, 111, 110, 97, 108>>

\* The test of lines 379-384 on the mand_opt_list column (JSON): a string
\* or a list that mentions "optional" in any letter case.
IsOptional(m) ==
    CASE m.kind = "str" -> Contains(Lower(m.text), OptionalWord)
      [] m.kind = "list" ->
            \E i \in 1..Len(m.items) : Contains(Lower(m.items[i]), OptionalWord)
      [] OTHER -> FALSE

\* __init__ keeping the weights as they are given.
InitV4AsGiven(tfidf_weight, overlap_weight) ==
    [tfidf_weight |-> tfidf_weight, overlap_weight |-> overlap_weight]

\* __init__(db, tfidf_weight, overlap_weight) with numeric weights.
InitV4(tfidf_weight, overlap_weight) ==
    With(RAdd(tfidf_weight, overlap_weight), LAMBDA total :
        IF RLeq(total, RZero)
        THEN [tfidf_weight |-> Rat(6, 10), overlap_weight |-> Rat(4, 10)]
        ELSE [tfidf_weight |-> RDiv(tfidf_weight, total),
              overlap_weight |-> RDiv(overlap_weight, total)])

\* The normalised, non-empty skills of a course row, in relation order.
NormalizedSkills(c) ==
    SelectSeq(Tup([i \in 1..Len(c.skills) |-> NormalizeSkill(c.skills[i])]),
              LAMBDA s : s # <<>>)

\* The payload {"message": text}.
Message(op, args, text) ==
    [op |-> op, args |-> args, outcome |-> "return", error |-> "",
     result |-> <<>>, scored |-> <<>>, pairs |-> {}, message |-> text]

\* query(DegreeProgram).filter_by(program_id=..., university_id=...).first()
\* (line 374): <<the row>> or <<>>.  program_id is the primary key: programs
\* are numbered through the universities in the order of their ids.
ProgramOf(graph, univ_id, program_id) ==
    IF univ_id \notin DOMAIN graph THEN <<>>
    ELSE With(program_id - SeqSum(Tup([v \in 1..(univ_id - 1) |->
                               IF v \in DOMAIN graph THEN Len(graph[v].programs) ELSE 0])),
              LAMBDA k : IF k \in 1..Len(graph[univ_id].programs)
                         THEN <<graph[univ_id].programs[k]>> ELSE <<>>)

\* The electives when every course of the program is taken as one.
ElectiveCoursesUnflagged(program) ==
    IF program = <<>> THEN <<>> ELSE program[1].courses

\* The courses of the program whose flag mentions "optional" (lines 381-390).
ElectiveCourses(program) ==
    IF program = <<>> THEN <<>>
    ELSE SelectSeq(program[1].courses, LAMBDA c : IsOptional(c.mand_opt_list))

\* What recommend_electives_for_degree_enhanced reads before it scores
\* (lines 362-431); message is "" when it goes on to score.
ElectiveFeatures(graph, univ_id, program_id, target_skills) ==
    With({NormalizeSkill(target_skills[i]) : i \in 1..Len(target_skills)} \ {<<>>},
         LAMBDA user_skills_set :
    With(ProgramOf(graph, univ_id, program_id), LAMBDA program :
    With(ElectiveCourses(program), LAMBDA elective_courses :
    With(SelectSeq(elective_courses, LAMBDA c : NormalizedSkills(c) # <<>>),
         LAMBDA course_objs :
        [message |->
            IF user_skills_set = {} THEN "Please provide at least one valid skill."
            ELSE IF program = <<>> THEN "Degree program not found for this university."
            ELSE IF elective_courses = <<>>
            THEN "No elective courses were found for this program."
            ELSE IF course_objs = <<>>
            THEN "No skills found on the elective courses of this program."
            ELSE "",
         user_skills_set |-> user_skills_set,
         user_text |-> Join(Sorted(user_skills_set)),
         course_objs |-> course_objs,
         course_skill_texts |->
            Tup([i \in 1..Len(course_objs) |-> Join(NormalizedSkills(course_objs[i]))])]))))

\* The tf-idf scores the electives can get (lines 436-443); the except
\* branch gives all zeros.
ElectiveSims(f) ==
    IF f.message # "" THEN {<<>>}
    ELSE IF EmptyVocabulary(<<f.user_text>> \o f.course_skill_texts)
    THEN {Tup([i \in 1..Len(f.course_objs) |-> SimZero])}
    ELSE CosineSims(f.user_text, f.course_skill_texts)

\* a * s for a similarity s
SimScale(a, s) == Sim(RMul(a, s.q), IF a[1] > 0 THEN s.e ELSE IF a[1] < 0 THEN -s.e ELSE 0)

\* One elective of the loop of lines 449-485; kept is FALSE for a course
\* the relevance cut-off of line 459 drops.
ScoreElective(w, c, user_skills_set, tfidf_score, min_overlap_ratio) ==
    With(Range(NormalizedSkills(c)), LAMBDA course_set :
    With(Rat(Cardinality(user_skills_set \cap course_set),
             Cardinality(user_skills_set \cup course_set)),
         LAMBDA overlap_ratio :
    With(Clamp01(Sim(RAdd(SimScale(w.tfidf_weight, tfidf_score).q,
                          RMul(w.overlap_weight, overlap_ratio)),
                     SimScale(w.tfidf_weight, tfidf_score).e)),
         LAMBDA final_score :
        [kept |-> ~(RLess(overlap_ratio, min_overlap_ratio)
                    /\ RLess(tfidf_score.q, <<1, 100>>)),
         lesson_name |-> c.lesson_name,
         final_score |-> RoundTo(final_score.q, 1000),
         key |-> Sim(<<RoundTo(final_score.q, 1000), 1>>, 0),
         tfidf_score |-> RoundTo(tfidf_score.q, 1000),
         tfidf |-> tfidf_score,
         overlap_ratio |-> RoundTo(overlap_ratio, 1000),
         matching_skills |-> Sorted(user_skills_set \cap course_set),
         missing_skills |-> Sorted(course_set \ user_skills_set),
         skills |-> Sorted({s \in Range(c.skills) : s # <<>>}),
         a |-> user_skills_set,
         b |-> course_set,
         value |-> overlap_ratio])))

\* max(1, top_n)
AtLeastOne(top_n) == IF top_n < 1 THEN 1 ELSE top_n

\* recommend_electives_for_degree_enhanced without the relevance cut-off of
\* line 459: every elective with skills is scored.
RecommendElectivesNoCutOff(f, w, args, sims) ==
    IF f.message # ""
    THEN Message("recommend_electives_for_degree_enhanced", args, f.message)
    ELSE With(Tup([i \in 1..Len(f.course_objs) |->
                     ScoreElective(w, f.course_objs[i], f.user_skills_set,
                                   sims[i], args.min_overlap_ratio)]),
              LAMBDA scored :
                 Returned("recommend_electives_for_degree_enhanced", args,
                          Take(SortDesc(SelectSeq(scored, LAMBDA r : r.final_score >= 100)),
                               AtLeastOne(args.top_n)),
                          scored,
                          {[a |-> r.a, b |-> r.b, value |-> r.value] : r \in Range(scored)}))

\* recommend_electives_for_degree_enhanced for the features `f` and the
\* drawn tf-idf scores `sims`.
RecommendElectives(f, w, args, sims) ==
    IF f.message # ""
    THEN Message("recommend_electives_for_degree_enhanced", args, f.message)
    ELSE With(SelectSeq(Tup([i \in 1..Len(f.course_objs) |->
                               ScoreElective(w, f.course_objs[i], f.user_skills_set,
                                             sims[i], args.min_overlap_ratio)]),
                        LAMBDA r : r.kept),
              LAMBDA scored :
                 Returned("recommend_electives_for_degree_enhanced", args,
                          Take(SortDesc(SelectSeq(scored, LAMBDA r : r.final_score >= 100)),
                               AtLeastOne(args.top_n)),
                          scored,
                          {[a |-> r.a, b |-> r.b, value |-> r.value] : r \in Range(scored)}))

----------------------------------------------------------------------------
(* One request served by a fresh CourseRecommenderV4 (main.py:736,         *)
(* routers/electives.py:33).                                               *)

ElectiveRow(name, mand_opt, skills) ==
    [lesson_name |-> name, mand_opt_list |-> mand_opt, skills |-> skills]

\* skill names "c++", "PY" and "py ml"
SkCpp == <<99, 43, 43>>
SkPYUp == <<80, 89>>
SkPyMl == <<112, 121, 32, 109, 108>>

\* "Optional", "mandatory"
MoOptional == <<79, 112, 116, 105, 111, 110, 97, 108>>
MoMandatory == <<109, 97, 110, 100, 97, 116, 111, 114, 121>>

\* The programs of university 1 in the elective graphs.
ProgramsE ==
    { <<>>,
      <<DegreeRow("BSc", TitleList(<<TiBSc>>),
                  <<ElectiveRow(CoDb, TitleText(MoOptional), <<SkPy>>),
                    ElectiveRow(CoOs, TitleList(<<MoMandatory, OptionalWord>>), <<SkPYUp, SkMl>>),
                    ElectiveRow(CoAi, TitleText(MoMandatory), <<SkMl>>)>>)>>,
      <<DegreeRow("BSc", TitleList(<<TiBSc>>),
                  <<ElectiveRow(CoDb, TitleText(OptionalWord), <<SkPy, SkMl>>),
                    ElectiveRow(CoMl, TitleText(OptionalWord), <<SkMl>>),
                    ElectiveRow(CoAi, TitleText(OptionalWord), <<SkCpp>>)>>)>>,
      <<DegreeRow("BSc", TitleList(<<TiBSc>>),
                  <<ElectiveRow(CoDb, TitleText(OptionalWord), <<SkC>>),
                    ElectiveRow(CoOs, TitleText(OptionalWord), <<>>)>>)>>,
      <<DegreeRow("BSc", TitleList(<<TiBSc>>),
                  <<ElectiveRow(CoDb, NoTitles, <<SkPy>>)>>),
        DegreeRow("MSc", TitleList(<<TiMScAI>>),
                  <<ElectiveRow(CoOs, TitleText(OptionalWord), <<>>)>>)>>,
      <<DegreeRow("BSc", TitleList(<<TiBSc>>),
                  <<ElectiveRow(CoMl, TitleText(OptionalWord), <<SkPyMl>>),
                    ElectiveRow(CoAi, TitleText(OptionalWord),
                                <<SkC, SkCpp, SkPy, SkMl, SkPyMl>>)>>)>> }

\* The programs of university 2, where there is one: its program has the
\* program_id after those of university 1.
PeerProgramsE ==
    <<DegreeRow("BSc", TitleList(<<TiBSc>>),
                <<ElectiveRow(CoOs, TitleText(OptionalWord), <<SkPy, SkMl>>)>>)>>

GraphsE ==
    {[i \in {1} |-> UnivOf(ps)] : ps \in ProgramsE}
    \cup {[i \in {1, 2} |-> UnivOf(IF i = 1 THEN ps ELSE PeerProgramsE)] :
             ps \in {qs \in ProgramsE : Len(qs) = 1 /\ Len(qs[1].courses) = 3}}

\* The constructor arguments: the defaults, zero, equal, negative, one-sided,
\* negative sum.
WeightArgsV4 ==
    { <<Rat(6, 10), Rat(4, 10)>>, <<RZero, RZero>>, <<ROne, ROne>>,
      <<<<-1, 1>>, <<2, 1>>>>, <<ROne, RZero>>, <<<<-1, 1>>, <<1, 2>>>> }

\* The target_skills arguments: none, "py", "Py" and "ml", "c", "!".
TargetSkillsE == {<<>>, <<SkPy>>, <<SkPyCap, SkMl>>, <<SkC>>, <<<<33>>>>}

\* The min_overlap_ratio arguments: the default 0.1, and 0.5.
MinOverlapRatios == {<<1, 10>>, <<1, 2>>}

InitE ==
    /\ engine = "CourseRecommenderV4"
    /\ db \in GraphsE
    /\ \E a \in WeightArgsV4 :
          /\ weights_arg = [tfidf_weight |-> a[1], overlap_weight |-> a[2]]
          /\ v4 = InitV4(a[1], a[2])
    /\ weights = <<>>
    /\ cache_enabled = FALSE
    /\ profile_cache = <<>>
    /\ call = NoCall
    /\ ncalls = 0
    /\ run = NoRun
    /\ nedits = 0

RecommendElectivesForDegreeEnhanced ==
    /\ engine = "CourseRecommenderV4"
    /\ ncalls < 1
    /\ \E univ_id \in {1, 2}, program_id \in {1, 2}, target_skills \in TargetSkillsE,
          top_n \in 0..MaxTopN, min_overlap_ratio \in MinOverlapRatios :
       \E f \in {ElectiveFeatures(db, univ_id, program_id, target_skills)} :
       \E sims \in ElectiveSims(f) :
          call' = RecommendElectives(f, v4,
                      [univ_id |-> univ_id, program_id |-> program_id,
                       target_skills |-> target_skills, top_n |-> top_n,
                       min_overlap_ratio |-> min_overlap_ratio], sims)
    /\ ncalls' = ncalls + 1
    /\ UNCHANGED <<engine, db, weights_arg, weights, cache_enabled, profile_cache, v4, run, nedits>>

NextE == RecommendElectivesForDegreeEnhanced

SpecE == InitE /\ [][NextE]_vars

----------------------------------------------------------------------------
(* The title normalisers and the degree type classifier as functions of    *)
(* their input: one application to an input drawn from a bounded set.      *)

\* The longest title string, the longest title list, the most words of a
\* degree title.
MaxTitleLen == 3
MaxTitles == 2
MaxTitleWords == 2

\* The characters of the title strings: M a space tab ! - and alpha.
TitleChars == {77, 97, 32, 9, 33, 45, 945}
TitleStrings == UNION {[1..k -> TitleChars] : k \in 0..MaxTitleLen}

\* The elements of the title lists: "", "!!", "MSc AI", " a!", "PhD (ml)".
TitleElems == {<<>>, <<33, 33>>, TiMScAI, <<32, 97, 33>>, TiPhD}
TitleLists == UNION {[1..k -> TitleElems] : k \in 0..MaxTitles}

\* json.dumps of a list of strings that need no escape.
RECURSIVE JsonItems(_)
JsonItems(l) ==
    IF l = <<>> THEN <<>>
    ELSE <<34>> \o Head(l) \o <<34>>
         \o (IF Len(l) > 1 THEN <<44, 32>> \o JsonItems(Tail(l)) ELSE <<>>)

JsonDumps(l) == <<91>> \o JsonItems(l) \o <<93>>

\* The title fields: None, a list, the JSON text of a list, a text that is
\* not JSON ("[MSc" among them).
TitleFields ==
    {NoTitles}
    \cup {TitleList(l) : l \in TitleLists}
    \cup {TitleText(JsonDumps(l)) : l \in TitleLists}
    \cup {TitleText(e) : e \in TitleElems \cup {<<91, 77, 83, 99>>}}

\* The words of the degree titles: ma, Pharma, MSc, M.Sc, master, masters,
\* PhD, doctoral, doctorate, BSc; and what stands between two words: a
\* space, a dash, nothing.
TitleWords ==
    { <<109, 97>>, <<80, 104, 97, 114, 109, 97>>, <<77, 83, 99>>, <<77, 46, 83, 99>>,
      <<109, 97, 115, 116, 101, 114>>, <<109, 97, 115, 116, 101, 114, 115>>,
      <<80, 104, 68>>, <<100, 111, 99, 116, 111, 114, 97, 108>>,
      <<100, 111, 99, 116, 111, 114, 97, 116, 101>>, TiBSc }
WordSeparators == {<<32>>, <<45>>, <<>>}

RECURSIVE Phrases(_)
Phrases(n) ==
    IF n <= 1 THEN TitleWords
    ELSE With(Phrases(n - 1), LAMBDA P :
            P \cup {p \o sep \o w : p \in P, sep \in WordSeparators, w \in TitleWords})

FunctionInputs ==
    {[kind |-> "field", field |-> f, title |-> <<>>] : f \in TitleFields}
    \cup {[kind |-> "title", field |-> NoTitles, title |-> t] : t \in TitleStrings}
    \cup {[kind |-> "degree", field |-> NoTitles, title |-> d] :
             d \in Phrases(MaxTitleWords)}

InitT ==
    /\ engine = "functions"
    /\ db \in FunctionInputs
    /\ weights_arg = NoWeights
    /\ weights = <<>>
    /\ cache_enabled = FALSE
    /\ profile_cache = <<>>
    /\ v4 = NoV4
    /\ call = NoCall
    /\ ncalls = 0
    /\ run = NoRun
    /\ nedits = 0

Applied(op, result) ==
    /\ call' = Returned(op, db, result, <<>>, {})
    /\ ncalls' = ncalls + 1
    /\ UNCHANGED <<engine, db, weights_arg, weights, cache_enabled, profile_cache, v4, run, nedits>>

\* CourseRecommender._parse_titles(raw_titles)
ParseTitlesOfField ==
    /\ engine = "functions" /\ ncalls < 1 /\ db.kind = "field"
    /\ Applied("_parse_titles", ParseTitles(db.field))

\* The title loop of build_university_profile on one program.
AddTitlesOfField ==
    /\ engine = "functions" /\ ncalls < 1 /\ db.kind = "field"
    /\ Applied("degree_titles", AddedTitlesU(db.field))

\* The cleaning of one title string by either recommender.
CleanUniversityTitle ==
    /\ engine = "functions" /\ ncalls < 1 /\ db.kind = "title"
    /\ Applied("clean_university_title", <<CleanTitleU(db.title)>>)

CleanCourseTitle ==
    /\ engine = "functions" /\ ncalls < 1 /\ db.kind = "title"
    /\ Applied("clean_course_title", <<CleanTitleC(db.title)>>)

\* The classifier on the cleaned form of a degree title, as
\* suggest_degrees_with_skills applies it to profile["degrees"].
ClassifyDegree ==
    /\ engine = "functions" /\ ncalls < 1 /\ db.kind = "degree"
    /\ Applied("degree_type", <<CleanTitleU(db.title), DegreeType(CleanTitleU(db.title))>>)

NextT ==
    \/ ParseTitlesOfField \/ AddTitlesOfField
    \/ CleanUniversityTitle \/ CleanCourseTitle
    \/ ClassifyDegree

SpecT == InitT /\ [][NextT]_vars

----------------------------------------------------------------------------
(* The scoring of one candidate course by suggest_courses_for_degree       *)
(* (lines 337-360), as a function of what the aggregation hands it.        *)

\* The most similar degrees one call is given.  The endpoint passes five
\* (SimilarDegreesLimit); the method takes any list.
MaxSimilarDegrees == 41

\* skill names "ab cd" and "cd ab": different names, the same terms
SkAbCd == <<97, 98, 32, 99, 100>>
SkCdAb == <<99, 100, 32, 97, 98>>

SkillNamesG == {SkAbCd, SkCdAb, SkPy}

\* A candidate: the degrees that hold it (freq) among max_freq, the skills
\* gathered for it, those of its own course row, and the target's skills.
CandidateInputs ==
    {[kind |-> "course", freq |-> x[1], max_freq |-> x[2], skills |-> x[3],
      specific |-> x[4], target_skills |-> x[5]] :
        x \in {y \in {1, SimilarDegreesLimit, MaxSimilarDegrees}
                      \X {1, SimilarDegreesLimit, MaxSimilarDegrees}
                      \X ((SUBSET SkillNamesG) \ {{}}) \X (SUBSET SkillNamesG)
                      \X (SUBSET SkillNamesG) :
                 /\ y[1] \in {1, y[2]}
                 /\ y[4] \subseteq y[3]}}

InitG ==
    /\ engine = "functions"
    /\ db \in CandidateInputs
    /\ weights_arg = NoWeights
    /\ weights = <<>>
    /\ cache_enabled = FALSE
    /\ profile_cache = <<>>
    /\ v4 = NoV4
    /\ call = NoCall
    /\ ncalls = 0
    /\ run = NoRun
    /\ nedits = 0

\* The body of the scoring loop for one candidate, sims[i] being any value
\* cosine_similarity can give for the two skill documents.
ScoreCandidateCourse ==
    /\ engine = "functions" /\ ncalls < 1 /\ db.kind = "course"
    /\ \E sims \in CosineSims(Join(Sorted(db.target_skills)), <<Join(Sorted(db.skills))>>) :
          Applied("score_course",
                  <<ScoreCourse(CoDb, db.freq, db.max_freq, db.skills, db.target_skills,
                                db.specific \ db.target_skills, sims[1])>>)

NextG == ScoreCandidateCourse

SpecG == InitG /\ [][NextG]_vars

----------------------------------------------------------------------------
(* The top_skills of one suggested degree: _get_degree_skills_similarity   *)
(* on the arguments suggest_degrees_with_skills passes it (lines 338-339,  *)
(* 419-421; core.py:283-284, 364).                                         *)

\* The rows of university 1, and those of universities 2 and 3.
TargetRowK == UnivRow(<<CourseRow(CoDb, <<SkPy>>)>>, <<ProgramRow(TitleList(<<TiBSc>>))>>)

PeerRowsK ==
    { TargetRowK,
      UnivRow(<<CourseRow(CoOs, <<SkPyCap, SkMl>>)>>, <<ProgramRow(TitleList(<<TiMScAI>>))>>),
      UnivRow(<<CourseRow(CoAi, <<SkMl, SkC, SkCpp, SkPyMl, SkAbCd, SkCdAb>>)>>,
              <<ProgramRow(TitleList(<<TiMScAI>>))>>) }

GraphsK == {g \in [UnivIds -> PeerRowsK] : g[1] = TargetRowK}

InitK ==
    /\ engine = "UniversityRecommender"
    /\ db \in GraphsK
    /\ weights_arg = NoWeights
    /\ weights = InitWeights(NoWeights)
    /\ cache_enabled = FALSE
    /\ profile_cache = <<>>
    /\ v4 = NoV4
    /\ call = NoCall
    /\ ncalls = 0
    /\ run = NoRun
    /\ nedits = 0

\* The arguments of the call for one candidate degree of a target.
TopSkillsArgs(graph, target) ==
    With(Profiles(graph, <<>>, FALSE), LAMBDA P :
        {[target |-> target,
          similar_univ_ids |-> ids,
          target_degree |-> deg,
          target_skills_raw |-> Range(P[target].skills_raw_names)] :
            <<ids, deg>> \in
               UNION {{SimilarIds(FindSimilar(graph, P, target, SimilarLimit, sims))}
                         \X (UNION {Range(P[u].degrees) : u \in DOMAIN graph \ {target}}
                               \ Range(P[target].degrees)) :
                        sims \in FindSimilarSims(graph, P, target)}})

GetDegreeSkillsSimilarity ==
    /\ engine = "UniversityRecommender"
    /\ ncalls < 1
    /\ \E target \in DOMAIN db :
       \E args \in TopSkillsArgs(db, target) :
       \E P \in {Profiles(db, <<>>, FALSE)} :
       \E score \in SkillScores(CountedSkills(P, args.similar_univ_ids, args.target_degree,
                                              args.target_skills_raw)) :
          call' = Returned("_get_degree_skills_similarity", args,
                           GetDegreeSkills(P, args.similar_univ_ids, args.target_degree,
                                           args.target_skills_raw, score), <<>>, {})
    /\ ncalls' = ncalls + 1
    /\ UNCHANGED <<engine, db, weights_arg, weights, cache_enabled, profile_cache, v4, run, nedits>>

GetDegreeSkillsSimilarityCore ==
    /\ engine = "UniversityRecommender"
    /\ ncalls < 1
    /\ \E target \in DOMAIN db :
       \E args \in TopSkillsArgs(db, target) :
       \E P \in {Profiles(db, <<>>, FALSE)} :
       \E score \in FeatureScores(RankedFeatures(P, args.similar_univ_ids, args.target_degree,
                                                 args.target_skills_raw)) :
          call' = Returned("core._get_degree_skills_similarity", args,
                           GetDegreeSkillsCore(P, args.similar_univ_ids, args.target_degree,
                                               args.target_skills_raw, score), <<>>, {})
    /\ ncalls' = ncalls + 1
    /\ UNCHANGED <<engine, db, weights_arg, weights, cache_enabled, profile_cache, v4, run, nedits>>

NextK == GetDegreeSkillsSimilarity \/ GetDegreeSkillsSimilarityCore

SpecK == InitK /\ [][NextK]_vars

----------------------------------------------------------------------------
(* One UniversityRecommender whose build_university_profile is called      *)
(* several times, while another request creates a university or commits a  *)
(* change to the rows of one.                                              *)

\* The number of build_university_profile calls of a behaviour.
MaxBuilds == 3

BuildIds == {1, 2}

GraphsB == UNION {[ids -> SessionRows] : ids \in SUBSET BuildIds}

InitB ==
    /\ engine = "UniversityRecommender"
    /\ db \in GraphsB
    /\ weights_arg = NoWeights
    /\ weights = InitWeights(NoWeights)
    /\ cache_enabled \in BOOLEAN
    /\ profile_cache = <<>>
    /\ v4 = NoV4
    /\ call = NoCall
    /\ ncalls = 0
    /\ run = NoRun
    /\ nedits = 0

\* build_university_profile(university_id), lines 90-154.
BuildUniversityProfile ==
    /\ engine = "UniversityRecommender"
    /\ ncalls < MaxBuilds
    /\ \E university_id \in BuildIds :
          /\ call' = Returned("build_university_profile", university_id,
                              BuildProfile(db, profile_cache, cache_enabled, university_id),
                              <<>>, {})
          /\ run' = Built(run, db, profile_cache, cache_enabled, <<university_id>>, nedits)
          /\ profile_cache' = CacheAfter(db, profile_cache, cache_enabled, {university_id})
    /\ ncalls' = ncalls + 1
    /\ UNCHANGED <<engine, db, weights_arg, weights, cache_enabled, v4, nedits>>

\* Another request commits a new university with its rows.
CreateUniversity ==
    /\ engine = "UniversityRecommender"
    /\ nedits < 1
    /\ \E u \in BuildIds \ DOMAIN db :
       \E row \in SessionRows :
          db' = Fn([i \in DOMAIN db \cup {u} |-> IF i = u THEN row ELSE db[i]])
    /\ nedits' = nedits + 1
    /\ UNCHANGED <<engine, weights_arg, weights, cache_enabled, profile_cache, v4, call,
                   ncalls, run>>

NextB == BuildUniversityProfile \/ CreateUniversity \/ ModifyEntityGraph

SpecB == InitB /\ [][NextB]_vars

----------------------------------------------------------------------------
(* The electives endpoint: POST /universities/{univ_id}/degrees/electives  *)
(* as main.py defines it over core3.CourseRecommenderV4 and as             *)
(* routers/electives.py defines it over student_recommender's.             *)

\* One elective of the loop of core3.py:291-328: the score carries the bonus
\* of the new skills and is stored under the key "score".
ScoreElectiveCore3(w, c, user_skills_set, tfidf_score, min_overlap_ratio) ==
    With(ScoreElective(w, c, user_skills_set, tfidf_score, min_overlap_ratio), LAMBDA r :
    With(Cardinality(r.b \ r.a), LAMBDA new_skill_count :
    With(Clamp01(Sim(RAdd(RAdd(SimScale(w.tfidf_weight, tfidf_score).q,
                               RMul(w.overlap_weight, r.value)),
                          Rat(2 * (IF new_skill_count < 5 THEN new_skill_count ELSE 5), 100)),
                     SimScale(w.tfidf_weight, tfidf_score).e)),
         LAMBDA final_score :
        [kept |-> r.kept,
         lesson_name |-> r.lesson_name,
         score |-> RoundTo(final_score.q, 1000),
         key |-> Sim(<<RoundTo(final_score.q, 1000), 1>>, 0),
         tfidf_score |-> r.tfidf_score,
         overlap_ratio |-> r.overlap_ratio,
         matching_skills |-> r.matching_skills,
         missing_skills |-> r.missing_skills,
         skills |-> r.skills])))

\* core3's recommend_electives_for_degree_enhanced (core3.py:213-340): no
\* cut-off at 0.1 before the sort.
RecommendElectivesCore3(f, w, args, sims) ==
    IF f.message # ""
    THEN Message("recommend_electives_for_degree_enhanced", args, f.message)
    ELSE With(SelectSeq(Tup([i \in 1..Len(f.course_objs) |->
                               ScoreElectiveCore3(w, f.course_objs[i], f.user_skills_set,
                                                  sims[i], args.min_overlap_ratio)]),
                        LAMBDA r : r.kept),
              LAMBDA scored :
                 Returned("recommend_electives_for_degree_enhanced", args,
                          Take(SortDesc(scored), AtLeastOne(args.top_n)), scored, {}))

\* item.get("final_score", 0.0)
GetFinalScore(item) == IF "final_score" \in DOMAIN item THEN item.final_score ELSE 0

\* The response of the endpoint to what the engine returned (main.py:747-771,
\* routers/electives.py:44-75); the scores are thousandths.  `scored` keeps
\* the list the engine returned.
ElectivesResponse(op, args, result) ==
    IF "message" \in DOMAIN result
    THEN [Returned(op, args, <<>>, <<>>, {}) EXCEPT !.error = "success: False"]
    ELSE Returned(op, args,
                  Tup([i \in 1..Len(result.result) |->
                         [course_name |-> result.result[i].lesson_name,
                          score |-> GetFinalScore(result.result[i]),
                          skills |-> result.result[i].skills,
                          matching_skills |-> result.result[i].matching_skills,
                          missing_skills |-> result.result[i].missing_skills]]),
                  result.result, {})

\* The min_overlap_ratio query parameter: the default 0.0, and 0.5.
MinOverlapRatiosP == {RZero, <<1, 2>>}

\* The endpoints build CourseRecommenderV4(db): the default weights.
InitP ==
    /\ engine = "CourseRecommenderV4"
    /\ db \in GraphsE
    /\ weights_arg = [tfidf_weight |-> Rat(6, 10), overlap_weight |-> Rat(4, 10)]
    /\ v4 = InitV4(Rat(6, 10), Rat(4, 10))
    /\ weights = <<>>
    /\ cache_enabled = FALSE
    /\ profile_cache = <<>>
    /\ call = NoCall
    /\ ncalls = 0
    /\ run = NoRun
    /\ nedits = 0

\* recommend_electives of main.py:728-771.
RecommendElectivesMain ==
    /\ engine = "CourseRecommenderV4"
    /\ ncalls < 1
    /\ \E univ_id \in {1, 2}, program_id \in {1, 2}, target_skills \in TargetSkillsE,
          top_n \in 0..MaxTopN, min_overlap_ratio \in MinOverlapRatiosP :
       \E args \in {[univ_id |-> univ_id, program_id |-> program_id,
                     target_skills |-> target_skills, top_n |-> top_n,
                     min_overlap_ratio |-> min_overlap_ratio]} :
       \E f \in {ElectiveFeatures(db, univ_id, program_id, target_skills)} :
       \E sims \in ElectiveSims(f) :
          call' = ElectivesResponse("main.recommend_electives", args,
                                    RecommendElectivesCore3(f, v4, args, sims))
    /\ ncalls' = ncalls + 1
    /\ UNCHANGED <<engine, db, weights_arg, weights, cache_enabled, profile_cache, v4, run, nedits>>

\* recommend_electives of routers/electives.py:12-80.
RecommendElectivesRouter ==
    /\ engine = "CourseRecommenderV4"
    /\ ncalls < 1
    /\ \E univ_id \in {1, 2}, program_id \in {1, 2}, target_skills \in TargetSkillsE,
          top_n \in 0..MaxTopN, min_overlap_ratio \in MinOverlapRatiosP :
       \E args \in {[univ_id |-> univ_id, program_id |-> program_id,
                     target_skills |-> target_skills, top_n |-> top_n,
                     min_overlap_ratio |-> min_overlap_ratio]} :
       \E f \in {ElectiveFeatures(db, univ_id, program_id, target_skills)} :
       \E sims \in ElectiveSims(f) :
          call' = ElectivesResponse("routers.electives.recommend_electives", args,
                                    RecommendElectives(f, v4, args, sims))
    /\ ncalls' = ncalls + 1
    /\ UNCHANGED <<engine, db, weights_arg, weights, cache_enabled, profile_cache, v4, run, nedits>>

NextP == RecommendElectivesMain \/ RecommendElectivesRouter

SpecP == InitP /\ [][NextP]_vars

----------------------------------------------------------------------------
(* Any of the three recommenders.                                          *)

Init == InitU \/ InitC \/ InitE

Next == NextU \/ NextC \/ NextE

Spec == Init /\ [][Next]_vars

----------------------------------------------------------------------------
(* The claims.                                                             *)

UOps == {"find_similar_universities", "suggest_degrees_with_skills"}
COps == {"find_similar_degrees", "suggest_courses_for_degree"}
Electives == "recommend_electives_for_degree_enhanced"

\* The candidate pool of find_similar_universities, read from the database.
PoolU(target) == ValidUnivs(db, Profiles(db, <<>>, FALSE), target)

\* Is the returned list the payload [{"info": ...}]?
IsInfo(result) == Len(result) = 1 /\ "info" \in DOMAIN result[1]

\* C1: after construction, with any weights argument, the four weights
\* frequency, novelty, compatibility and skill_enrichment sum to exactly 1.
C1_WeightsSumToOne ==
    engine = "UniversityRecommender" => SumOver(WeightKeys, weights) = ROne

\* C2: find_similar_universities and suggest_degrees_with_skills return the
\* empty list, and do not raise, when the target id does not exist and when
\* no other university has a non-empty profile document.
C2_EmptyOnMissingTargetOrEmptyPool ==
    (/\ call.op \in UOps
     /\ (call.args.target \notin DOMAIN db \/ PoolU(call.args.target) = <<>>))
    => (call.outcome = "return" /\ call.result = <<>>)

\* A call on an existing target whose only peers have empty documents.
C2_EmptyPoolCall ==
    /\ call.op = "suggest_degrees_with_skills"
    /\ call.args.target \in DOMAIN db
    /\ DOMAIN db # {call.args.target}
    /\ PoolU(call.args.target) = <<>>
    /\ call.outcome = "return"
    /\ call.result = <<>>

\* C3: suggest_degrees_with_skills never divides by zero: it returns a list
\* also when no peer has a skill the target lacks.
C3_NoDivisionByZero ==
    call.op = "suggest_degrees_with_skills"
    => ~(call.outcome = "raise" /\ call.error = "ZeroDivisionError")

\* C4: find_similar_degrees and suggest_courses_for_degree do not raise when
\* no document of the corpus holds an indexable term (the vectoriser's
\* ValueError for an empty vocabulary does not reach the caller).
C4_DegenerateCorpusDoesNotRaise ==
    call.op \in COps => ~(call.outcome = "raise" /\ call.error = "ValueError")

\* C5: suggest_new_degree_proposals skips a candidate group for which
\* suggest_courses_for_degree finds no new course, and still returns a list
\* or an info payload (reading the score of the payload does not raise).
C5_NoCandidateGroupIsSkipped ==
    call.op = "suggest_new_degree_proposals"
    => ~(call.outcome = "raise" /\ call.error = "KeyError")

\* Is the list of strings in sorted order, without two entries equal
\* ignoring letter case?
SortedNoCaseDuplicates(l) ==
    /\ \A i \in 1..(Len(l) - 1) : ~StrLess(l[i + 1], l[i])
    /\ \A i, j \in 1..Len(l) : i # j => Lower(l[i]) # Lower(l[j])

\* C6: in every profile build_university_profile returns, skills,
\* skills_raw_names, courses and degrees are sorted and hold no two entries
\* equal ignoring letter case.
C6_ProfilesSortedNoCaseDuplicates ==
    \A id \in DOMAIN profile_cache :
        /\ SortedNoCaseDuplicates(profile_cache[id].skills)
        /\ SortedNoCaseDuplicates(profile_cache[id].skills_raw_names)
        /\ SortedNoCaseDuplicates(profile_cache[id].courses)
        /\ SortedNoCaseDuplicates(profile_cache[id].degrees)

\* The score of a returned record, in thousandths (ten-thousandths for
\* find_similar_universities).
ScoreOf(op, r) ==
    CASE op = "find_similar_universities" -> r.similarity_score
      [] op = Electives -> r.final_score
      [] OTHER -> r.score

\* C7: every score of a record returned by suggest_degrees_with_skills,
\* suggest_courses_for_degree and recommend_electives_for_degree_enhanced
\* lies in [0, 1], for every weights map the constructor accepts.
C7_ScoresInUnitInterval ==
    (/\ call.op \in {"suggest_degrees_with_skills", "suggest_courses_for_degree", Electives}
     /\ call.outcome = "return"
     /\ ~IsInfo(call.result))
    => \A i \in 1..Len(call.result) :
          ScoreOf(call.op, call.result[i]) \in 0..1000

\* C8: for every candidate suggest_degrees_with_skills and
\* suggest_courses_for_degree score, compat_score and novelty_score are
\* within [0, 1].
C8_CompatAndNoveltyInUnitInterval ==
    (call.op \in {"suggest_degrees_with_skills", "suggest_courses_for_degree"}
     /\ call.outcome = "return")
    => \A i \in 1..Len(call.scored) :
          /\ RInUnit(call.scored[i].compat_score)
          /\ SimInUnit(call.scored[i].novelty_score)

\* C9: every compatibility value computed between two skill sets A and B, in
\* the degree, the course and the elective suggestion, is
\* |A \cap B| / (|A \cup B| + 1).
C9_CompatIsSmoothedOverlap ==
    (call.op \in {"suggest_degrees_with_skills", "suggest_courses_for_degree", Electives}
     /\ call.outcome = "return")
    => \A p \in call.pairs :
          p.value = Rat(Cardinality(p.a \cap p.b), Cardinality(p.a \cup p.b) + 1)

RankedOps ==
    {"find_similar_universities", "suggest_degrees_with_skills",
     "suggest_courses_for_degree", Electives}

\* Are the scores of the list non-increasing from first to last?
NonIncreasing(op, result) ==
    \A i \in 1..(Len(result) - 1) : ScoreOf(op, result[i + 1]) <= ScoreOf(op, result[i])

PeerIdsU(target) ==
    LET P == Profiles(db, <<>>, FALSE)
        valid == ValidUnivs(db, P, target)
    IN  {r.university_id :
            r \in Range(FindSimilar(db, P, target, SimilarLimit,
                                    Tup([i \in 1..Len(valid) |-> SimZero])))}

\* The degrees some returned peer offers and the target does not.
OfferedByPeers(target) ==
    LET P == Profiles(db, <<>>, FALSE)
    IN  UNION {Range(P[u].degrees) : u \in PeerIdsU(target)}
        \ Range(ProfileAt(P, target).degrees)

\* C11: every degree title suggest_degrees_with_skills returns is absent from
\* the target's degrees and is offered by one of the peers that
\* find_similar_universities returned; when no peer offers a degree the
\* target lacks, the call returns the empty list.
C11_SuggestedDegreesAreNewAndOffered ==
    call.op = "suggest_degrees_with_skills"
    => /\ call.outcome = "return"
          => \A i \in 1..Len(call.result) :
                call.result[i].degree \in OfferedByPeers(call.args.target)
       /\ OfferedByPeers(call.args.target) = {}
          => (call.outcome = "return" /\ call.result = <<>>)

\* A call that suggests a degree although a peer also offers a degree the
\* target already has.
C11_SuggestionBesidesSharedDegree ==
    /\ call.op = "suggest_degrees_with_skills"
    /\ call.outcome = "return"
    /\ call.result # <<>>
    /\ \E u \in PeerIdsU(call.args.target) :
          Range(Profiles(db, <<>>, FALSE)[u].degrees)
          \cap Range(ProfileAt(Profiles(db, <<>>, FALSE), call.args.target).degrees) # {}

\* A call on a target with peers none of which offers a degree it lacks.
C11_NoNewDegreeCall ==
    /\ call.op = "suggest_degrees_with_skills"
    /\ PeerIdsU(call.args.target) # {}
    /\ OfferedByPeers(call.args.target) = {}

\* The electives with skills of the program a call names, read from the
\* database, and the overlap ratio of one of them with the target skills.
ElectiveCandidates(args) ==
    Range(ElectiveFeatures(db, args.univ_id, args.program_id, args.target_skills).course_objs)

OverlapOf(c, args) ==
    LET user == {NormalizeSkill(args.target_skills[i]) :
                    i \in 1..Len(args.target_skills)} \ {<<>>}
        course == Range(NormalizedSkills(c))
    IN  Rat(Cardinality(user \cap course), Cardinality(user \cup course))

\* Did the call go on to score its electives?
ElectivesScored ==
    /\ call.op = Electives
    /\ call.outcome = "return"
    /\ "message" \notin DOMAIN call

\* Is the returned list cut at max(1, top_n)?
ElectivesTruncated == Len(call.result) = AtLeastOne(call.args.top_n)

C12_OverlappingElectiveLeftOut ==
    /\ ElectivesScored
    /\ ~ElectivesTruncated
    /\ v4 = InitV4(Rat(6, 10), Rat(4, 10))
    /\ \E i \in 1..Len(call.scored) :
          /\ RLeq(call.args.min_overlap_ratio, call.scored[i].value)
          /\ \A j \in 1..Len(call.result) : call.result[j] # call.scored[i]

\* C13: a CourseRecommenderV4 built with any two numeric weights has
\* tfidf_weight + overlap_weight = 1, and has the defaults 0.6 and 0.4 when
\* the given weights sum to 0 or less.
C13_V4WeightsSumToOne ==
    engine = "CourseRecommenderV4"
    => /\ RAdd(v4.tfidf_weight, v4.overlap_weight) = ROne
       /\ RLeq(RAdd(weights_arg.tfidf_weight, weights_arg.overlap_weight), RZero)
          => v4 = [tfidf_weight |-> Rat(6, 10), overlap_weight |-> Rat(4, 10)]

\* A recommender built with weights that sum to 2, and one built with
\* weights of negative sum.
C13_BuiltWithWeightsSummingToTwo ==
    /\ engine = "CourseRecommenderV4"
    /\ weights_arg = [tfidf_weight |-> ROne, overlap_weight |-> ROne]
    /\ v4 = [tfidf_weight |-> Rat(1, 2), overlap_weight |-> Rat(1, 2)]

C13_BuiltWithNegativeSum ==
    /\ engine = "CourseRecommenderV4"
    /\ RLess(RAdd(weights_arg.tfidf_weight, weights_arg.overlap_weight), RZero)

\* The other universities whose profile has the skills, courses and degrees
\* of the target's profile, which is not empty.
IdenticalPeers(target) ==
    LET P == Profiles(db, <<>>, FALSE)
    IN  IF target \notin DOMAIN db \/ ProfileText(P[target]) = <<>> THEN {}
        ELSE {u \in DOMAIN db \ {target} : P[u] = P[target]}

\* The position of university u in the returned list, 0 when it is absent.
RankOf(u) ==
    IF \E i \in 1..Len(call.result) : call.result[i].university_id = u
    THEN CHOOSE i \in 1..Len(call.result) : call.result[i].university_id = u
    ELSE 0

\* C19: find_similar_universities gives a peer whose skills, courses and
\* degrees are those of the non-empty target profile the similarity 1.0, and
\* ranks no peer of smaller similarity above it: the peer is in the returned
\* list with similarity_score 1.0 after records of similarity_score 1.0 only,
\* or the list is cut at top_n records that all have similarity_score 1.0.
C19_IdenticalPeerRanksFirst ==
    (call.op = "find_similar_universities" /\ call.outcome = "return")
    => \A u \in IdenticalPeers(call.args.target) :
          /\ \A i \in 1..Len(call.result) :
                i <= RankOf(u) => call.result[i].similarity_score = 10000
          /\ RankOf(u) = 0
             => /\ Len(call.result) = call.args.top_n
                /\ \A i \in 1..Len(call.result) : call.result[i].similarity_score = 10000

\* C16: cleaning a title is idempotent, clean(clean(t)) = clean(t), for the
\* allow-list of either recommender.
C16_CleanIsIdempotent ==
    /\ call.op = "clean_university_title"
       => CleanTitleU(call.result[1]) = call.result[1]
    /\ call.op = "clean_course_title"
       => CleanTitleC(call.result[1]) = call.result[1]

\* A title whose cleaning removed a character and then trimmed the white
\* space the removal left at an end.
C16_RemovalExposedSpace ==
    /\ call.op = "clean_university_title"
    /\ call.result[1] # <<>>
    /\ Strip(call.args.title) = call.args.title
    /\ SelectSeq(call.args.title, AllowedU) # call.result[1]

\* The cleaned forms of a list of titles, in order, and the same without
\* the empty ones.
CleanEach(op, l) ==
    Tup([i \in 1..Len(l) |->
           IF op = "_parse_titles" THEN CleanTitleC(l[i]) ELSE CleanTitleU(l[i])])

NonEmptyOnly(l) == SelectSeq(l, LAMBDA t : t # <<>>)

YieldsCleaned(op, result, l) ==
    result = CleanEach(op, l) \/ result = NonEmptyOnly(CleanEach(op, l))

\* C17: the title normalizer never raises; for the JSON text of an array of
\* strings it yields the cleaned form of each element, in order; for a text
\* that is not JSON it yields the one cleaned text; a list is used element by
\* element.  (Read either way: every cleaned form, or every non-empty one.)
C17_NormalizerYieldsCleanedElements ==
    call.op \in {"_parse_titles", "degree_titles"}
    => With(call.args.field, LAMBDA field :
          /\ call.outcome = "return"
          /\ \A l \in TitleLists :
                field = TitleText(JsonDumps(l)) => YieldsCleaned(call.op, call.result, l)
          /\ (field.kind = "str" /\ field.text # <<>> /\ ~JsonLoads(field.text).ok)
             => YieldsCleaned(call.op, call.result, <<field.text>>)
          /\ field.kind = "list" => YieldsCleaned(call.op, call.result, field.items))

\* The words of a title: the maximal runs of letters and digits, case-folded.
WordsOf(title) ==
    {Lower(SubSeq(title, i, j)) : <<i, j>> \in
        {r \in (1..Len(title)) \X (1..Len(title)) :
            /\ r[1] <= r[2]
            /\ \A k \in r[1]..r[2] : IsWord(title[k])
            /\ (r[1] = 1 \/ ~IsWord(title[r[1] - 1]))
            /\ (r[2] = Len(title) \/ ~IsWord(title[r[2] + 1]))}}

\* C18: over cleaned titles the classifier returns MSc/MA iff the case-folded
\* title has master, msc or ma as a whole word; otherwise PhD iff it has phd,
\* doctorate or doctoral as a whole word; otherwise BSc/BA.  A keyword
\* inside a longer word does not match.
C18_ClassifierMatchesWholeWords ==
    call.op = "degree_type"
    => With(WordsOf(call.result[1]), LAMBDA words :
          call.result[2] =
             IF words \cap {<<109, 97, 115, 116, 101, 114>>, <<109, 115, 99>>, <<109, 97>>} # {}
             THEN "MSc/MA"
             ELSE IF words \cap DoctorWords # {} THEN "PhD"
             ELSE "BSc/BA")

\* A title that holds "ma" only inside longer words and is classified BSc/BA.
C18_KeywordInsideLongerWord ==
    /\ call.op = "degree_type"
    /\ HasSubstring(Lower(call.result[1]), <<109, 97>>)
    /\ call.result[2] = "BSc/BA"

\* The calls suggest_degrees_with_skills(target, top_n) can return when every
\* profile is built from `graph`.
SuggestedFrom(P, w, target, top_n, similar, order) ==
    With(DegreeFeatures(P, target, similar, order), LAMBDA f :
        {SuggestDegrees(f, w, similar, target, top_n, sims2) : sims2 \in SuggestSims(f)})

SuggestedFromPeers(P, w, target, top_n, similar) ==
    UNION {SuggestedFrom(P, w, target, top_n, similar, order) :
             order \in SuggestOrders(P, target, similar)}

FromGraph(graph, w, op, target, top_n) ==
    With(Profiles(graph, <<>>, FALSE), LAMBDA P :
        IF op = "find_similar_universities"
        THEN {Returned(op, [target |-> target, top_n |-> top_n],
                       FindSimilar(graph, P, target, top_n, sims), <<>>, {}) :
                sims \in FindSimilarSims(graph, P, target)}
        ELSE UNION {SuggestedFromPeers(P, w, target, top_n,
                                       FindSimilar(graph, P, target, SimilarLimit, sims1)) :
                      sims1 \in FindSimilarSims(graph, P, target)})

\* C14: a top-level call during which the entity graph did not change
\* returns what the entity graph as it is at that call gives, whatever
\* earlier calls on the same recommender built.
C14_CallReflectsCurrentGraph ==
    (run.stage = "done" /\ run.started = nedits)
    => call \in FromGraph(db, weights, run.op, run.target, run.top_n)

\* The profiles build_university_profile returned for university u during the
\* call, with the number of changes committed before each build.
SeenOf(u) == {p \in run.seen : p.id = u}

C20_OneSnapshotPerCall ==
    run.op = "suggest_degrees_with_skills"
    => \A u \in UnivIds :
          /\ run.reads[u] <= 1
          /\ \A a \in SeenOf(u) : \A b \in SeenOf(u) : a.profile = b.profile

\* C21: every element of the list _parse_titles returns is a non-empty
\* string; a candidate that is empty after the allow-list filter and the
\* trimming is not in the output.
C21_ParsedTitlesAreNonEmpty ==
    call.op = "_parse_titles"
    => \A i \in 1..Len(call.result) : call.result[i] # <<>>

\* 0.40 * freq_score + 0.35 * compat_score + 0.15 * new_skill_score
\* + 0.10 * novelty_score of a scored course
BlendOf(r) ==
    RAdd(RAdd(RMul(<<40, 100>>, r.freq_score), RMul(<<35, 100>>, r.compat_score)),
         RAdd(RMul(<<15, 100>>, r.new_skill_score), RMul(<<10, 100>>, r.novelty_score.q)))

\* C22: a candidate course whose compatibility is below 0.1 is scored with
\* its blend multiplied by 0.05 and its returned 3-decimal score is strictly
\* positive; a candidate whose compatibility is at least 0.1 gets the blend.
C22_GatePenalizesWithoutZeroing ==
    call.op = "score_course"
    => With(call.result[1], LAMBDA r :
          IF RLess(r.compat_score, <<1, 10>>)
          THEN /\ r.score = RoundTo(RMul(<<5, 100>>, BlendOf(r)), 1000)
               /\ r.score > 0
          ELSE r.score = RoundTo(BlendOf(r), 1000))

\* The distinct skills the target lacks that the returned peers offering
\* `deg` hold.
NewSkillsWith(target, deg) ==
    LET P == Profiles(db, <<>>, FALSE)
    IN  UNION {Range(P[u].skills) : u \in {v \in PeerIdsU(target) : deg \in Range(P[v].degrees)}}
        \ Range(ProfileAt(P, target).skills)

\* C23: the skill_enrichment reported for a suggested degree is the number
\* of distinct skills the target lacks that the peers offering the degree
\* hold; a new skill of several such peers counts once.
C23_EnrichmentCountsDistinctSkills ==
    (call.op = "suggest_degrees_with_skills" /\ call.outcome = "return")
    => \A i \in 1..Len(call.result) :
          call.result[i].metrics.skill_enrichment
             = Cardinality(NewSkillsWith(call.args.target, call.result[i].degree))

\* C24: no course suggest_courses_for_degree returns has a name in the
\* target degree's course list, and every returned course is in the course
\* list of one of the similar degrees the call was given.
C24_SuggestedCoursesAreNewAndOffered ==
    (call.op = "suggest_courses_for_degree" /\ call.outcome = "return"
       /\ ~IsInfo(call.result))
    => \A i \in 1..Len(call.result) :
          /\ call.result[i].course_name \notin Range(call.args.target.courses)
          /\ \E k \in 1..Len(call.args.similar_degrees) :
                call.result[i].course_name \in Range(call.args.similar_degrees[k].courses)

\* A call that returned a course although a similar degree also lists a
\* course of the target.
C24_SuggestionBesidesSharedCourse ==
    /\ call.op = "suggest_courses_for_degree"
    /\ call.outcome = "return"
    /\ ~IsInfo(call.result)
    /\ call.result # <<>>
    /\ \E k \in 1..Len(call.args.similar_degrees) :
          Range(call.args.similar_degrees[k].courses) \cap Range(call.args.target.courses) # {}

\* The DegreeProgram rows by program_id, each with the university it
\* belongs to.
ProgramsById(graph) ==
    Concat(Tup([u \in 1..SetMax(DOMAIN graph) |->
        IF u \in DOMAIN graph
        THEN Tup([k \in 1..Len(graph[u].programs) |->
                    [university_id |-> u, courses |-> graph[u].programs[k].courses]])
        ELSE <<>>]))

\* The courses of program program_id that are flagged optional, when the
\* program belongs to university univ_id; none otherwise.
OptionalCoursesOf(graph, univ_id, program_id) ==
    IF program_id \in 1..Len(ProgramsById(graph))
       /\ ProgramsById(graph)[program_id].university_id = univ_id
    THEN {c \in Range(ProgramsById(graph)[program_id].courses) : IsOptional(c.mand_opt_list)}
    ELSE {}

\* C25: every elective recommend_electives_for_degree_enhanced returns is a
\* course of the program program_id of university univ_id whose flag marks
\* it optional; when the program does not belong to the university or has
\* no optional course the call returns a message payload, not a list.
C25_ElectivesAreOptionalCoursesOfProgram ==
    (call.op = Electives /\ call.outcome = "return")
    => With(OptionalCoursesOf(db, call.args.univ_id, call.args.program_id), LAMBDA optional :
          /\ \A i \in 1..Len(call.result) :
                \E c \in optional : c.lesson_name = call.result[i].lesson_name
          /\ optional = {} => ("message" \in DOMAIN call /\ call.result = <<>>))

\* A call that returned electives of a program of two universities' graph
\* that also has a course not flagged optional.
C25_ElectivesBesidesMandatoryCourse ==
    /\ call.op = Electives
    /\ call.outcome = "return"
    /\ call.result # <<>>
    /\ 2 \in DOMAIN db
    /\ \E c \in Range(ProgramsById(db)[call.args.program_id].courses) :
          ~IsOptional(c.mand_opt_list)

TopSkillOps == {"_get_degree_skills_similarity", "core._get_degree_skills_similarity"}

\* The skill names of the peers among the call's similar universities that
\* offer the degree, lower-cased.
SkillsOfOfferingPeers(args) ==
    UNION {{Lower(s) : s \in Range(ProfileOf(db[u]).skills_raw_names)} :
             u \in {v \in Range(args.similar_univ_ids) :
                      args.target_degree \in Range(ProfileOf(db[v]).degrees)}}

\* C26: the top_skills of a suggested degree are at most 5, in order of
\* non-increasing skill_score; each is, up to letter case, a skill of a peer
\* among the similar universities that offers the degree, and none equals,
\* ignoring case, a skill of the target.
C26_TopSkillsAreNewPeerSkills ==
    call.op \in TopSkillOps
    => /\ Len(call.result) <= 5
       /\ \A i \in 1..(Len(call.result) - 1) :
             call.result[i].skill_score >= call.result[i + 1].skill_score
       /\ \A i \in 1..Len(call.result) :
             /\ Lower(call.result[i].skill_name) \in SkillsOfOfferingPeers(call.args)
             /\ Lower(call.result[i].skill_name)
                   \notin {Lower(t) : t \in call.args.target_skills_raw}

\* " ".join(skills + courses).strip() of a degree profile is not empty.
HasDocument(p) == Strip(Join(p.skills \o p.courses)) # <<>>

\* The profiles of other universities with the target's degree type and a
\* document, read from the database.
EligibleDegrees(target_profile) ==
    {p \in Range(AllProfiles(db)) :
        /\ p.degree_type = target_profile.degree_type
        /\ p.university_id # target_profile.university_id
        /\ HasDocument(p)}

\* C27: every profile find_similar_degrees returns has the target's
\* degree_type, another university_id and a non-empty skills-plus-courses
\* document; the result is [] when the target's document is empty or there
\* is no such candidate.
C27_SimilarDegreesPassThePredicate ==
    (call.op = "find_similar_degrees" /\ call.outcome = "return")
    => /\ \A i \in 1..Len(call.result) : call.result[i] \in EligibleDegrees(call.args.target)
       /\ (~HasDocument(call.args.target) \/ EligibleDegrees(call.args.target) = {})
          => call.result = <<>>

\* A call that returned a degree while another university also has a degree
\* of another type with a document.
C27_ReturnedBesidesOtherDegreeType ==
    /\ call.op = "find_similar_degrees"
    /\ call.outcome = "return"
    /\ call.result # <<>>
    /\ \E p \in Range(AllProfiles(db)) :
          /\ p.degree_type # call.args.target.degree_type
          /\ p.university_id # call.args.target.university_id
          /\ HasDocument(p)

\* The builds made so far for an id, with the profile each returned.
BuildsOf(id) == {s \in run.seen : s.id = id}

\* The cache holds an id only with a profile some build for the id returned
\* after finding the university; a build made since the last change of the
\* rows, for a university that exists, returned a profile; without
\* cache_enabled the cache is empty.
CacheHoldsFoundProfiles ==
    /\ \A id \in DOMAIN profile_cache :
          /\ profile_cache[id].found
          /\ \E s \in BuildsOf(id) : s.profile = profile_cache[id]
    /\ \A s \in run.seen : (s.version = nedits /\ s.id \in DOMAIN db) => s.profile.found
    /\ ~cache_enabled => profile_cache = <<>>

\* No step replaces or removes an entry of the cache.
CacheEntriesAreKept ==
    \A id \in DOMAIN profile_cache :
       id \in DOMAIN profile_cache' /\ profile_cache'[id] = profile_cache[id]

\* C28: after any sequence of build_university_profile calls the cache holds
\* an entry for an id only if a build for that id found the university; a
\* lookup that found none is not memoized, so a build after the university
\* has been created returns a profile; an entry once stored is never
\* replaced or removed; with cache_enabled = False the cache stays empty.
C28_CacheMemoizesFoundProfilesOnly ==
    []CacheHoldsFoundProfiles /\ [][CacheEntriesAreKept]_vars

\* A build that returned a profile, stored now, for an id an earlier build
\* had found no university for.
C28_FoundAfterNotFound ==
    /\ cache_enabled
    /\ call.op = "build_university_profile"
    /\ call.result.found
    /\ call.args \in DOMAIN profile_cache
    /\ \E s \in BuildsOf(call.args) : ~s.profile.found

\* The candidates a call scored, in another order of entering degree_texts.
Reordered(scored, order) ==
    Tup([i \in 1..Len(order) |->
           CHOOSE e \in Range(scored) : e.degree = order[i]])

\* What a finished call of suggest_degrees_with_skills returns on its
\* snapshot when the sets of new degrees are iterated in another order, every
\* degree keeping the features and the score the call computed for it.
OtherExecutions ==
    {Take(SortDesc(Reordered(call.scored, order)), run.top_n) :
        order \in SuggestOrders(Profiles(db, profile_cache, cache_enabled),
                                run.target, run.similar)}

\* A finished call of suggest_degrees_with_skills that scored degrees, the
\* entity graph being the one the call read.
FinishedSuggestion ==
    /\ run.stage = "done"
    /\ run.op = "suggest_degrees_with_skills"
    /\ call.op = "suggest_degrees_with_skills"
    /\ call.outcome = "return"
    /\ call.scored # <<>>
    /\ nedits = 0

\* C29: on one entity snapshot, with the same weights and top_n, any two
\* executions of suggest_degrees_with_skills return the same degrees in the
\* same order, also when candidates tie on score and when top_n cuts through
\* the tied candidates.
C29_SuggestedDegreesAreDetermined ==
    FinishedSuggestion => OtherExecutions = {call.result}

\* The scores of the scored candidates differ pairwise.
ScoresDiffer ==
    \A i, j \in 1..Len(call.scored) :
        i # j => call.scored[i].score # call.scored[j].score

\* The score the engine computed for an elective it returned: core3 stores it
\* under "score", student_recommender under "final_score".
EngineScore(item) ==
    IF "final_score" \in DOMAIN item THEN item.final_score ELSE item.score

ElectiveEndpoints == {"main.recommend_electives", "routers.electives.recommend_electives"}

\* C30: for every elective the engine returns, the electives endpoint reports
\* that course with the score the engine computed for it and in the engine's
\* order, in main.py over core3 and in routers/electives.py over
\* student_recommender.
C30_EndpointReportsEngineScores ==
    (call.op \in ElectiveEndpoints /\ call.outcome = "return")
    => /\ Len(call.result) = Len(call.scored)
       /\ \A i \in 1..Len(call.scored) :
             /\ call.result[i].course_name = call.scored[i].lesson_name
             /\ call.result[i].score = EngineScore(call.scored[i])

\* The same for the endpoint of routers/electives.py alone.
RouterReportsEngineScores ==
    (call.op = "routers.electives.recommend_electives" /\ call.outcome = "return")
    => /\ Len(call.result) = Len(call.scored)
       /\ \A i \in 1..Len(call.scored) :
             /\ call.result[i].course_name = call.scored[i].lesson_name
             /\ call.result[i].score = EngineScore(call.scored[i])

============================================================================
